---------------------------- MODULE Spec2Model ----------------------------
(***************************************************************************)
(* Verification model of the TradeMaster decision core:                    *)
(*   - AggressiveRiskManager      (tms/risk/aggressive_risk.py)            *)
(*   - VerifierAgent / hard stop  (run_api.py)                             *)
(*   - HyperGrowthEngine          (tms/strategies/hyper_growth_engine.py)  *)
(*   - MemecoinPosition / engine  (tms/memecoin/memecoin_engine.py)        *)
(*                                                                         *)
(* Numbers.  Python floats are modelled by exact integers:                 *)
(*   money is in whole USD, fractions such as 0.40 are held as percent     *)
(*   (40), and every comparison of two quotients is made by                *)
(*   cross-multiplying, so that no division is rounded.                    *)
(* Each component has its own specification (SpecARM, SpecVerifier,        *)
(* SpecHGE, SpecMeme); the variables of the other components stay at       *)
(* their initial values under it.                                          *)
(***************************************************************************)
EXTENDS Integers, Sequences, FiniteSets, TLC

VARIABLES
    \* ---- clocks (datetime.utcnow(), datetime.now(US/Eastern)) ----
    utc_day,                \* the UTC date, as a day number
    et_hour, et_minute,     \* US/Eastern wall-clock time of day
    \* ---- AggressiveRiskManager ----
    arm_equity, arm_peak_equity, arm_day_start_equity, arm_current_date,
    arm_consecutive_losses, arm_is_halted, arm_halt_reason,
    arm_ret,                \* the last call and what it returned
    \* ---- VerifierAgent ----
    ver_signals_verified, ver_signals_rejected, ver_rejection_reasons,
    ver_ret,                \* the last verify_signal call and what it returned
    \* ---- HyperGrowthEngine and its CompoundGrowthTracker ----
    hge_active_positions, hge_last_signal_age, hge_daily_trades, hge_last_trade_date,
    hge_consecutive_losses, hge_is_halted,
    gt_current_equity, gt_trade_returns, gt_win_count, gt_loss_count,
    hge_ret,                \* the last call and what it returned
    \* ---- MemecoinEngine ----
    meme_positions, meme_closed_positions, meme_total_trades,
    meme_ret,               \* the last call and what should_exit saw and returned
    \* ---- HARDetector and the trading loop ----
    trade_log, broker_positions,
    har_strategic_inactivity, har_alerts,
    har_ret,                \* the last detect_edge_decay call and what it returned
    loop_ret,               \* what the last trading_loop cycle did
    \* ---- the trading loop as a task (start_trading / stop_trading) ----
    trading_active, trading_task,
    drv_pc,                 \* where the task is suspended or what it runs next
    drv_cycle, drv_errors,
    drv_all_signals, verified_signals,
    STRATEGY_CONFIG_position_size_pct, old_size, drv_success,
    orders_submitted, orders_logged,
    drv_ret,                \* the last step of the task or request handler
    \* ---- MemecoinEngine's loop as tasks (start_engine / stop_engine) ----
    eng_active, eng_auto_trade, engine_task,
    eng_pc,                 \* per task: the await it is suspended at
    eng_opps,               \* per task: the opportunities left to auto-trade
    eng_positions, eng_total_trades,
    eng_shut_pc, eng_shut_list, eng_sell_failed,
    eng_ret,                \* the last step of a task or request handler
    \* ---- RugDetector ----
    rug_report,             \* the SafetyReport of the last analyze_token call
    rug_tokens_analyzed, rug_tokens_flagged,
    rug_ret                 \* which fetches of the last call delivered data

armVars == <<arm_equity, arm_peak_equity, arm_day_start_equity, arm_current_date,
             arm_consecutive_losses, arm_is_halted, arm_halt_reason, arm_ret>>
verVars == <<ver_signals_verified, ver_signals_rejected, ver_rejection_reasons, ver_ret>>
hgeVars == <<hge_active_positions, hge_last_signal_age, hge_daily_trades,
             hge_last_trade_date, hge_consecutive_losses, hge_is_halted,
             gt_current_equity, gt_trade_returns, gt_win_count, gt_loss_count, hge_ret>>
memeVars == <<meme_positions, meme_closed_positions, meme_total_trades, meme_ret>>
harVars == <<trade_log, broker_positions, har_strategic_inactivity, har_alerts,
             har_ret, loop_ret>>
clockVars == <<utc_day, et_hour, et_minute>>
drvVars == <<trading_active, trading_task, drv_pc, drv_cycle, drv_errors,
             drv_all_signals, verified_signals, STRATEGY_CONFIG_position_size_pct,
             old_size, drv_success, orders_submitted, orders_logged, drv_ret>>
engVars == <<eng_active, eng_auto_trade, engine_task, eng_pc, eng_opps, eng_positions,
             eng_total_trades, eng_shut_pc, eng_shut_list, eng_sell_failed, eng_ret>>
rugVars == <<rug_report, rug_tokens_analyzed, rug_tokens_flagged, rug_ret>>
extVars == <<drvVars, engVars, rugVars>>
vars == <<clockVars, armVars, verVars, hgeVars, memeVars, harVars, extVars>>

---------------------------------------------------------------------------
\* Bounds of the model (not program constants).
MaxDay == 1                \* the UTC date advances at most this many times
MaxLossStreak == 7         \* record_trade stops counting losses here (the code never does)
MaxVerifyCalls == 2        \* verify_signal calls whose counters and reasons are kept
MaxClosedTrades == 1       \* on_position_close calls (the tracker's return list grows)
MaxDailyTrades == 2        \* entry signals counted in one day (the code allows 30)
MaxMemeBuys == 1
MaxHarAlerts == 3
MaxLogLen == 6
MaxLoopVerifyCalls == 4
MaxTrackerUpdates == 3           \* successful execute_buy calls
MaxCycles == 2                   \* cycles of trading_loop begun
MaxCapDay == 2                   \* date advances while the position cap is exercised
MaxAnalyses == 2                 \* analyze_token calls
MaxEngineTasks == 2              \* run_engine_loop tasks created
MaxEngineBuys == 1               \* successful execute_buy calls of the engine tasks

---------------------------------------------------------------------------
\* Generic helpers.
Max(a, b) == IF a >= b THEN a ELSE b
Min(a, b) == IF a <= b THEN a ELSE b
Abs(a) == IF a >= 0 THEN a ELSE -a

\* Strings whose content the code inspects are sequences of characters.
UpperChars == <<"A","B","C","D","E","F","G","H","I","J","K","L","M",
                "N","O","P","Q","R","S","T","U","V","W","X","Y","Z">>
LowerChars == <<"a","b","c","d","e","f","g","h","i","j","k","l","m",
                "n","o","p","q","r","s","t","u","v","w","x","y","z">>
\* str.lower(), character by character
LowerChar(c) ==
    IF \E i \in 1..26 : UpperChars[i] = c
    THEN LowerChars[CHOOSE i \in 1..26 : UpperChars[i] = c]
    ELSE c
StrLower(s) == [i \in 1..Len(s) |-> LowerChar(s[i])]
\* the Python operator `needle in hay`
StrContains(needle, hay) ==
    \E k \in 0..(Len(hay) - Len(needle)) :
        \A i \in 1..Len(needle) : hay[k + i] = needle[i]


---------------------------------------------------------------------------
(***************************************************************************)
(* AggressiveRiskManager (tms/risk/aggressive_risk.py)                     *)
(***************************************************************************)
\* AggressiveRiskConfig, fractions as percent.
seed_max == 500
sprout_max == 2500
grow_max == 30000
seed_max_position == 40
sprout_max_position == 30
grow_max_position == 20
mature_max_position == 15
seed_daily_loss_halt == 40
sprout_daily_loss_halt == 30
grow_daily_loss_halt == 20
mature_daily_loss_halt == 10
seed_drawdown_halt == 50
sprout_drawdown_halt == 40
grow_drawdown_halt == 30
mature_drawdown_halt == 20
arm_max_consecutive_losses == 6
min_trade_value_usd == 5
\* AggressiveRiskManager.__init__: equity, peak and day start all begin at 100.0
arm_initial_equity == 100

\* The static text of the three halt reasons, up to their first formatted number
\* (the numbers are digits, '.', '-', '%' and never add a letter).
DailyLossReason ==
    <<"D","a","i","l","y"," ","l","o","s","s"," ","l","i","m","i","t"," ","h","i","t",":">>
DrawdownReason ==
    <<"D","r","a","w","d","o","w","n"," ","l","i","m","i","t"," ","h","i","t",":">>
ConsecutiveLossReason ==
    <<"C","o","n","s","e","c","u","t","i","v","e"," ","l","o","s","s"," ","l","i","m","i","t",":">>
NoReason == <<>>           \* None

\* `"daily" in self._halt_reason.lower()`, with the truthiness test of the reason
IsDailyHaltMutant(reason) ==
    reason # NoReason /\ StrContains(<<"l","i","m","i","t">>, StrLower(reason))
IsDailyHalt(reason) ==
    reason # NoReason /\ StrContains(<<"d","a","i","l","y">>, StrLower(reason))

\* get_phase: `eq = equity or self._equity`, so an equity of 0 reads the manager's own
get_phase(equity, self_equity) ==
    LET eq == IF equity # 0 THEN equity ELSE self_equity
    IN  IF eq < seed_max THEN "seed"
        ELSE IF eq < sprout_max THEN "sprout"
        ELSE IF eq < grow_max THEN "grow"
        ELSE "mature"

get_max_position_pct(equity, self_equity) ==
    LET phase == get_phase(equity, self_equity)
    IN  IF phase = "seed" THEN seed_max_position
        ELSE IF phase = "sprout" THEN sprout_max_position
        ELSE IF phase = "grow" THEN grow_max_position
        ELSE mature_max_position

get_daily_loss_halt(equity, self_equity) ==
    LET phase == get_phase(equity, self_equity)
    IN  IF phase = "seed" THEN seed_daily_loss_halt
        ELSE IF phase = "sprout" THEN sprout_daily_loss_halt
        ELSE IF phase = "grow" THEN grow_daily_loss_halt
        ELSE mature_daily_loss_halt

get_drawdown_halt(equity, self_equity) ==
    LET phase == get_phase(equity, self_equity)
    IN  IF phase = "seed" THEN seed_drawdown_halt
        ELSE IF phase = "sprout" THEN sprout_drawdown_halt
        ELSE IF phase = "grow" THEN grow_drawdown_halt
        ELSE mature_drawdown_halt

\* daily_pnl_pct <= -daily_halt, with daily_pnl_pct = (new - start) / start, or 0.0
\* when start is not > 0  (cross-multiplied by start * 100)
DailyLossHitMutant(new_equity, day_start, daily_halt) ==
    IF day_start > 0
    THEN (new_equity - day_start) * 100 < -(daily_halt * day_start)
    ELSE 0 < -daily_halt
DailyLossHit(new_equity, day_start, daily_halt) ==
    IF day_start > 0
    THEN (new_equity - day_start) * 100 <= -(daily_halt * day_start)
    ELSE 0 <= -daily_halt

\* current_drawdown >= dd_halt, with current_drawdown = (peak - new) / peak, or 0.0
DrawdownHit(new_equity, peak, dd_halt) ==
    IF peak > 0
    THEN (peak - new_equity) * 100 >= dd_halt * peak
    ELSE 0 >= dd_halt

ArmNoRet ==
    [op |-> "init", was_halted |-> FALSE, new_day |-> FALSE, equity |-> 0,
     strength |-> 0, pct_n |-> 0, pct_d |-> 1, usd_n |-> 0, usd_d |-> 1,
     raised |-> FALSE]

\* Inputs.
UpdateEquities == {0, 50, 60, 100, 700, 1000}
SizingEquities == {0, 10, 600, 3000, 40000}
SignalStrengths == {0, 50, 75, 100}     \* signal_strength in percent, 0.0 .. 1.0
TradePnlPcts == {-5, 0, 5}

\* datetime.utcnow() moves to the next date
UtcMidnight ==
    /\ utc_day < MaxDay
    /\ utc_day' = utc_day + 1
    /\ UNCHANGED <<et_hour, et_minute>>

\* update_equity(new_equity)
update_equity(new_equity) ==
    LET today == utc_day
        new_day == today # arm_current_date
        day_start == IF new_day THEN new_equity ELSE arm_day_start_equity
        \* the new-day reset of a daily halt
        cleared == new_day /\ arm_is_halted /\ IsDailyHalt(arm_halt_reason)
        halted1 == IF cleared THEN FALSE ELSE arm_is_halted
        reason1 == IF cleared THEN NoReason ELSE arm_halt_reason
        peak == IF new_equity > arm_peak_equity THEN new_equity ELSE arm_peak_equity
        daily_halt == get_daily_loss_halt(new_equity, new_equity)
        dd_halt == get_drawdown_halt(new_equity, new_equity)
    IN  /\ arm_day_start_equity' = day_start
        /\ arm_current_date' = today
        /\ arm_equity' = new_equity
        /\ arm_peak_equity' = peak
        /\ IF ~halted1
           THEN IF DailyLossHit(new_equity, day_start, daily_halt)
                THEN arm_is_halted' = TRUE /\ arm_halt_reason' = DailyLossReason
                ELSE IF DrawdownHit(new_equity, peak, dd_halt)
                THEN arm_is_halted' = TRUE /\ arm_halt_reason' = DrawdownReason
                ELSE IF arm_consecutive_losses >= arm_max_consecutive_losses
                THEN arm_is_halted' = TRUE /\ arm_halt_reason' = ConsecutiveLossReason
                ELSE arm_is_halted' = halted1 /\ arm_halt_reason' = reason1
           ELSE arm_is_halted' = halted1 /\ arm_halt_reason' = reason1
        /\ arm_ret' = [ArmNoRet EXCEPT !.op = "update_equity",
                                       !.was_halted = arm_is_halted,
                                       !.new_day = new_day,
                                       !.equity = new_equity]
        /\ UNCHANGED arm_consecutive_losses

\* record_trade(pnl, pnl_pct, symbol)
record_trade(pnl_pct) ==
    /\ pnl_pct < 0 => arm_consecutive_losses < MaxLossStreak
    /\ arm_consecutive_losses' = IF pnl_pct < 0 THEN arm_consecutive_losses + 1 ELSE 0
    /\ arm_ret' = [ArmNoRet EXCEPT !.op = "record_trade", !.was_halted = arm_is_halted]
    /\ UNCHANGED <<arm_equity, arm_peak_equity, arm_day_start_equity, arm_current_date,
                   arm_is_halted, arm_halt_reason>>

\* reset_halt(reason)
reset_halt ==
    /\ arm_is_halted' = FALSE
    /\ arm_halt_reason' = NoReason
    /\ arm_consecutive_losses' = 0
    /\ arm_ret' = [ArmNoRet EXCEPT !.op = "reset_halt", !.was_halted = arm_is_halted]
    /\ UNCHANGED <<arm_equity, arm_peak_equity, arm_day_start_equity, arm_current_date>>

\* The value calculate_position_size(equity, signal_strength) returns:
\* position_pct = pct_n / pct_d, position_usd = usd_n / usd_d; `raised` is the
\* ZeroDivisionError of `position_usd / equity`.
PositionSize(equity, signal_strength, self_equity) ==
    LET max_pct == get_max_position_pct(equity, self_equity)
        \* max_pct * max(0.5, signal_strength), then min(max_pct, .), in 1/10000
        size == Min(max_pct * 100, max_pct * Max(50, signal_strength))
        floored == equity * size < min_trade_value_usd * 10000
    IN  IF ~floored
        THEN [pct_n |-> size, pct_d |-> 10000, usd_n |-> equity * size, usd_d |-> 10000,
              raised |-> FALSE]
        ELSE IF equity = 0
        THEN [pct_n |-> 0, pct_d |-> 1, usd_n |-> 0, usd_d |-> 1, raised |-> TRUE]
        ELSE [pct_n |-> min_trade_value_usd, pct_d |-> equity,
              usd_n |-> min_trade_value_usd, usd_d |-> 1, raised |-> FALSE]

\* calculate_position_size(equity, signal_strength): reads the manager, changes nothing
calculate_position_size(equity, signal_strength) ==
    LET r == PositionSize(equity, signal_strength, arm_equity)
    IN  /\ arm_ret' = [op |-> "calculate_position_size", was_halted |-> arm_is_halted,
                       new_day |-> FALSE, equity |-> equity, strength |-> signal_strength,
                       pct_n |-> r.pct_n, pct_d |-> r.pct_d, usd_n |-> r.usd_n,
                       usd_d |-> r.usd_d, raised |-> r.raised]
        /\ UNCHANGED <<arm_equity, arm_peak_equity, arm_day_start_equity, arm_current_date,
                       arm_consecutive_losses, arm_is_halted, arm_halt_reason>>

ClockInit ==
    /\ utc_day = 0
    /\ et_hour = 9
    /\ et_minute = 30

ArmInit ==
    /\ arm_equity = arm_initial_equity
    /\ arm_peak_equity = arm_initial_equity
    /\ arm_day_start_equity = arm_initial_equity
    /\ arm_current_date = 0
    /\ arm_consecutive_losses = 0
    /\ arm_is_halted = FALSE
    /\ arm_halt_reason = NoReason
    /\ arm_ret = ArmNoRet

ArmUpdateEquity == \E e \in UpdateEquities : update_equity(e)
ArmRecordTrade == \E p \in TradePnlPcts : record_trade(p)
ArmResetHalt == reset_halt
ArmCalculatePositionSize ==
    \E e \in SizingEquities, s \in SignalStrengths : calculate_position_size(e, s)

---------------------------------------------------------------------------
(***************************************************************************)
(* Claims about AggressiveRiskManager, checked under SpecARM.              *)
(***************************************************************************)
ArmSized == arm_ret.op = "calculate_position_size" /\ ~arm_ret.raised

\* C1: after sizing, for every phase, every equity > 0 and every signal strength in
\* [0,1], position_pct <= the phase's maximum position % and >= the minimum (half
\* of the maximum, the floor the sizer applies to weak signals), also when the
\* minimum-trade-value floor is applied.
C1_SizedWithinPhaseLimits ==
    (ArmSized /\ arm_ret.equity > 0) =>
        LET max_pct == get_max_position_pct(arm_ret.equity, arm_equity)
        IN  /\ arm_ret.pct_n * 100 <= max_pct * arm_ret.pct_d
            /\ arm_ret.pct_n * 200 >= max_pct * arm_ret.pct_d

\* C2: while the manager is halted no new entry is sized > 0: a
\* calculate_position_size call made in a halted state returns no positive size.
C2_NoSizeWhileHalted ==
    (ArmSized /\ arm_is_halted) => arm_ret.usd_n <= 0

\* C3: once halted, the manager stays halted across update_equity and record_trade
\* until reset_halt is called, or until update_equity runs on a new UTC date while
\* the halt is a daily-loss halt; a drawdown or consecutive-loss halt is never
\* cleared by a day change.
C3_HaltedUntilReset ==
    [][ (arm_is_halted /\ ~arm_is_halted') =>
            \/ arm_ret'.op = "reset_halt"
            \/ /\ arm_ret'.op = "update_equity"
               /\ arm_ret'.new_day
               /\ arm_halt_reason = DailyLossReason ]_vars

\* C3 witness: a drawdown halt that an update_equity on a new date left in place.
C3_Witness ==
    /\ arm_ret.op = "update_equity"
    /\ arm_ret.new_day
    /\ arm_ret.was_halted
    /\ arm_is_halted
    /\ arm_halt_reason = DrawdownReason

DailyLossLimitText ==
    <<"D","a","i","l","y"," ","l","o","s","s"," ","l","i","m","i","t">>

\* C4: for a manager that is not halted, an update_equity whose daily P&L % (new
\* equity against day-start equity) is <= -(daily-loss-halt % of the phase of the
\* new equity) halts with a reason containing "Daily loss limit"; equality halts,
\* and the daily-loss reason is used even when the drawdown limit is breached too.
C4_DailyLossHalts ==
    ( /\ arm_ret.op = "update_equity"
      /\ ~arm_ret.was_halted
      /\ arm_day_start_equity > 0
      /\ (arm_equity - arm_day_start_equity) * 100
            <= -(get_daily_loss_halt(arm_equity, arm_equity) * arm_day_start_equity) )
    => /\ arm_is_halted
       /\ StrContains(DailyLossLimitText, arm_halt_reason)

\* C4 witness: 100 -> 50 on the same day breaches the daily limit (-50% <= -40%) and
\* the drawdown limit (50% >= 50%) in one update; the reason is the daily-loss one.
C4_Witness ==
    /\ arm_ret.op = "update_equity"
    /\ ~arm_ret.was_halted
    /\ arm_equity = 50 /\ arm_day_start_equity = 100 /\ arm_peak_equity = 100
    /\ arm_is_halted
    /\ StrContains(DailyLossLimitText, arm_halt_reason)

---------------------------------------------------------------------------
(***************************************************************************)
(* VerifierAgent and the hard stop (run_api.py)                            *)
(* strength and noise_level are in thousandths, drawdown, daily P&L and    *)
(* regime confidence in percent.                                           *)
(***************************************************************************)
TMS_MAX_DRAWDOWN == 10        \* os.getenv("TMS_MAX_DRAWDOWN", "0.10")
TMS_MAX_DAILY_LOSS == 3       \* os.getenv("TMS_MAX_DAILY_LOSS", "0.03")
min_regime_confidence == 60   \* regime_conf < 0.6
max_positions == 5            \* STRATEGY_CONFIG["max_positions"]
hard_stop_hour == 15
hard_stop_minute == 50

\* _check_variance_inequality: abs(signal_strength) > (noise_level * 2)
CheckVarianceInequalityMutant(signal, state) ==
    Abs(signal.strength) >= state.noise_level * 2
_check_variance_inequality(signal, state) ==
    Abs(signal.strength) > state.noise_level * 2

\* VerifierAgent._is_past_hard_stop: now.hour >= 15 and now.minute >= 50
_is_past_hard_stop(hour, minute) ==
    hour >= hard_stop_hour /\ minute >= hard_stop_minute

\* is_past_hard_stop (module level, used by check_hard_stop): the same test
is_past_hard_stop(hour, minute) ==
    hour >= hard_stop_hour /\ minute >= hard_stop_minute

\* The (is_valid, reason) that verify_signal returns.
VerifyResult(signal, state, n_positions, hour, minute) ==
    IF ~_check_variance_inequality(signal, state)
    THEN [valid |-> FALSE, reason |-> "Variance inequality not satisfied"]
    ELSE IF state.current_drawdown >= TMS_MAX_DRAWDOWN
    THEN [valid |-> FALSE, reason |-> "Max drawdown exceeded"]
    ELSE IF state.daily_pnl_pct <= -TMS_MAX_DAILY_LOSS
    THEN [valid |-> FALSE, reason |-> "Daily loss limit hit"]
    ELSE IF state.regime_confidence < min_regime_confidence /\ signal.side = "buy"
    THEN [valid |-> FALSE, reason |-> "Low regime confidence"]
    ELSE IF n_positions >= max_positions /\ signal.side = "buy"
    THEN [valid |-> FALSE, reason |-> "Max positions reached"]
    ELSE IF _is_past_hard_stop(hour, minute)
    THEN [valid |-> FALSE, reason |-> "Past hard stop time (3:50 PM ET)"]
    ELSE [valid |-> TRUE, reason |-> "Signal verified"]

\* Inputs of verify_signal.
VerSignals == [side : {"buy", "sell"}, strength : {-50, 0, 20, 21, 50, 51}]
VerStates == [noise_level : {10, 25}, current_drawdown : {0, 10}, daily_pnl_pct : {-3, 0},
              regime_confidence : {50, 70}]
VerPositionCounts == {0, 5}
\* Times of day the US/Eastern clock is sampled at.
EtTimes == {<<9, 30>>, <<15, 49>>, <<15, 50>>, <<16, 10>>, <<16, 50>>}

VerNoRet ==
    [called |-> FALSE, side |-> "buy", strength |-> 0, noise_level |-> 0,
     n_positions |-> 0, valid |-> FALSE, reason |-> ""]

\* datetime.now(US/Eastern) moves on to another time of day
EtClockAdvance ==
    /\ \E t \in EtTimes :
          /\ <<et_hour, et_minute>> # t
          /\ et_hour' = t[1]
          /\ et_minute' = t[2]
    /\ UNCHANGED utc_day

\* VerifierAgent.verify_signal(signal, state, positions): its counters and result
VerifySignalCall(signal, state, n_positions) ==
    LET r == VerifyResult(signal, state, n_positions, et_hour, et_minute)
    IN  /\ IF r.valid
           THEN /\ ver_signals_verified' = ver_signals_verified + 1
                /\ UNCHANGED <<ver_signals_rejected, ver_rejection_reasons>>
           ELSE /\ ver_signals_rejected' = ver_signals_rejected + 1
                /\ ver_rejection_reasons' = Append(ver_rejection_reasons, r.reason)
                /\ UNCHANGED ver_signals_verified
        /\ ver_ret' = [called |-> TRUE, side |-> signal.side, strength |-> signal.strength,
                       noise_level |-> state.noise_level, n_positions |-> n_positions,
                       valid |-> r.valid, reason |-> r.reason]

\* verify_signal(signal, state, positions), called on its own
verify_signal(signal, state, n_positions) ==
    /\ ver_signals_verified + ver_signals_rejected < MaxVerifyCalls
    /\ VerifySignalCall(signal, state, n_positions)

VerInit ==
    /\ ver_signals_verified = 0
    /\ ver_signals_rejected = 0
    /\ ver_rejection_reasons = <<>>
    /\ ver_ret = VerNoRet

VerVerifySignal ==
    \E signal \in VerSignals, state \in VerStates, n \in VerPositionCounts :
        verify_signal(signal, state, n)

---------------------------------------------------------------------------
(***************************************************************************)
(* Claims about the VerifierAgent, checked under SpecVerifier.             *)
(***************************************************************************)
\* C5: verify_signal rejects every signal whose abs(strength) <= 2 * noise_level
\* (equality rejects), whatever the other fields of the signal, the state and the
\* positions are, with the variance-inequality reason.
C5_NoiseRejects ==
    (ver_ret.called /\ Abs(ver_ret.strength) <= 2 * ver_ret.noise_level) =>
        /\ ~ver_ret.valid
        /\ ver_ret.reason = "Variance inequality not satisfied"

\* C5 witness: the boundary case, a sell signal of strength exactly 2 * noise_level.
C5_Witness ==
    /\ ver_ret.called
    /\ ver_ret.side = "sell"
    /\ ver_ret.strength = 2 * ver_ret.noise_level
    /\ ~ver_ret.valid
    /\ ver_signals_rejected = 1

\* C6: the position-count limit and the hard-stop time-of-day limit apply to entries
\* only: verify_signal never rejects an exit (sell-side) signal because the position
\* count is at the maximum or because the time is past the hard stop.
C6_ExitsPassEntryLimits ==
    (ver_ret.called /\ ver_ret.side = "sell") =>
        /\ ver_ret.reason # "Max positions reached"
        /\ ver_ret.reason # "Past hard stop time (3:50 PM ET)"

\* C7: the hard-stop predicate (of the Risk Gate and of check_hard_stop) is true at
\* every US/Eastern time of day at or after 15:50 and false at every earlier time.
C7_HardStopFromThreeFifty ==
    LET past == et_hour * 60 + et_minute >= hard_stop_hour * 60 + hard_stop_minute
    IN  /\ _is_past_hard_stop(et_hour, et_minute) <=> past
        /\ is_past_hard_stop(et_hour, et_minute) <=> past

---------------------------------------------------------------------------
(***************************************************************************)
(* HyperGrowthEngine (tms/strategies/hyper_growth_engine.py)               *)
(* Scores, fractions of equity and gains are in percent, prices and ATR in *)
(* cents (prices are multiples of 25 cents, so that 4% of a price is a     *)
(* whole number), source weights in thousandths.  A quotient that is kept  *)
(* (a normalized score, a position size, the tracked equity) is a reduced  *)
(* fraction <<n, d>>.                                                      *)
(* Not modelled: _trade_history and _pyramid_counts (written, never read), *)
(* the 1e-9 added to the interpolation denominator (0.35 is not 0).        *)
(***************************************************************************)
\* HyperGrowthConfig
base_position_pct == 30
strong_signal_pct == 40
max_single_position_pct == 45
min_position_pct == 15
pyramid_enabled == TRUE
pyramid_add1_trigger_pct == 3
pyramid_add2_trigger_pct == 6
pyramid_add3_trigger_pct == 10
pyramid_add1_size_pct == 15
pyramid_add2_size_pct == 10
pyramid_add3_size_pct == 8
max_pyramid_adds == 3
initial_stop_atr_mult == 2
hard_stop_pct == 4
partial_exit_r == 4
full_exit_r == 8
min_signal_strength == 35
strong_signal_threshold == 70
min_sources_agreeing == 2
max_trades_per_day == 30
max_concurrent_positions == 4
signal_cooldown_seconds == 60
hge_max_consecutive_losses == 5
min_ohlcv_bars == 20            \* generate_signals: len(ohlcv) < 20
\* HyperGrowthEngine.__init__ / CompoundGrowthTracker
starting_equity == 100
target_equity == 500
\* One step of the model's clock, in seconds.
TickSeconds == 60
\* The age at which a last signal no longer blocks (also: never signalled).
CooledAge == (signal_cooldown_seconds + TickSeconds - 1) \div TickSeconds

RECURSIVE Gcd(_, _)
Gcd(a, b) == IF b = 0 THEN a ELSE Gcd(b, a % b)
\* the fraction n / d (d > 0) in lowest terms
Frac(n, d) ==
    LET g == Gcd(Abs(n), d)
    IN  IF g = 0 THEN <<0, 1>> ELSE <<n \div g, d \div g>>
FracLess(x, y) == x[1] * y[2] < y[1] * x[2]

\* The eight signal sources, in the order _fuse_signals runs them.
SourceNames ==
    <<"volume_explosion", "ema_ribbon", "rsi_surge", "vwap_reclaim",
      "bb_squeeze", "hh_hl_structure", "candle_pattern", "order_flow">>
NumSources == Len(SourceNames)
\* self._source_accuracy, as set in __init__ (no method updates it)
source_accuracy == [i \in 1..NumSources |-> [correct |-> 1, total |-> 2]]

\* _get_source_weight: max(0.3, correct / max(total, 1.0)), in thousandths
_get_source_weight(i) ==
    LET acc == source_accuracy[i]
        accuracy == (acc.correct * 1000) \div Max(acc.total, 1)
    IN  Max(300, accuracy)

ZeroReading == [score |-> 0, direction |-> "neutral"]
\* the weight a reading enters the fusion with (0: skipped)
ReadingWeight(i, reading, regime) ==
    IF reading.score <= 0 THEN 0
    ELSE IF reading.direction = "bull"
    THEN IF regime \in {"bull", "high_vol"}
         THEN (_get_source_weight(i) * 12) \div 10 ELSE _get_source_weight(i)
    ELSE IF reading.direction = "bear"
    THEN IF regime \in {"bear"}
         THEN (_get_source_weight(i) * 12) \div 10 ELSE _get_source_weight(i)
    ELSE 0

RECURSIVE DirScore(_, _, _, _)
\* sum of score * weight over the sources 1..n that voted `dir`
DirScore(readings, regime, dir, n) ==
    IF n = 0 THEN 0
    ELSE DirScore(readings, regime, dir, n - 1)
         + (IF readings[n].direction = dir
            THEN readings[n].score * ReadingWeight(n, readings[n], regime) ELSE 0)

RECURSIVE TotalWeight(_, _, _)
TotalWeight(readings, regime, n) ==
    IF n = 0 THEN 0
    ELSE TotalWeight(readings, regime, n - 1) + ReadingWeight(n, readings[n], regime)

\* len(active_bull_sources) / len(active_bear_sources)
DirCount(readings, dir) ==
    Cardinality({i \in 1..NumSources :
                    readings[i].score > 0 /\ readings[i].direction = dir})

\* The locals of _fuse_signals after its loop.
FuseTotals(readings, regime) ==
    [bull_score |-> DirScore(readings, regime, "bull", NumSources),
     bear_score |-> DirScore(readings, regime, "bear", NumSources),
     total_weight |-> TotalWeight(readings, regime, NumSources),
     bull_count |-> DirCount(readings, "bull"),
     bear_count |-> DirCount(readings, "bear")]

\* _fuse_signals: (combined_score, direction); the score is bull_norm or bear_norm,
\* both over the same total weight
_fuse_signals(readings, regime) ==
    LET t == FuseTotals(readings, regime)
    IN  IF t.total_weight <= 0
        THEN [score |-> <<0, 1>>, direction |-> "neutral"]
        ELSE IF t.bull_score > t.bear_score /\ t.bull_count >= min_sources_agreeing
        THEN [score |-> Frac(t.bull_score, t.total_weight), direction |-> "bull"]
        ELSE IF t.bear_score > t.bull_score /\ t.bear_count >= min_sources_agreeing
        THEN [score |-> Frac(t.bear_score, t.total_weight), direction |-> "bear"]
        ELSE [score |-> <<0, 1>>, direction |-> "neutral"]

\* CompoundGrowthTracker.progress_pct < bound (bound in percent); the clamp to
\* [0, 1] does not change the comparison for 0 < bound <= 100
ProgressBelow(equity, bound) ==
    (equity[1] - starting_equity * equity[2]) * 100
        < bound * (target_equity - starting_equity) * equity[2]

\* CompoundGrowthTracker.get_aggression_multiplier, in percent
get_aggression_multiplier(equity) ==
    IF ProgressBelow(equity, 50) THEN 100
    ELSE IF ProgressBelow(equity, 80) THEN 90
    ELSE 80

\* _calculate_position_size(signal_strength, equity): position size in percent
_calculate_position_size(signal_strength, tracker_equity) ==
    LET aggression == get_aggression_multiplier(tracker_equity)
        n == signal_strength[1]
        d == signal_strength[2]
        span == strong_signal_threshold - min_signal_strength
        size == IF n >= strong_signal_threshold * d
                THEN <<strong_signal_pct, 1>>
                ELSE <<base_position_pct * span * d
                          + (n - min_signal_strength * d)
                              * (strong_signal_pct - base_position_pct),
                       span * d>>
        scaled == <<size[1] * aggression, size[2] * 100>>
        capped == IF FracLess(<<max_single_position_pct, 1>>, scaled)
                  THEN <<max_single_position_pct, 1>> ELSE scaled
        floored == IF FracLess(capped, <<min_position_pct, 1>>)
                   THEN <<min_position_pct, 1>> ELSE capped
    IN  Frac(floored[1], floored[2])

\* An entry of self._active_positions; `present` is FALSE for a missing key.
NoPosition ==
    [present |-> FALSE, entry_price |-> 0, direction |-> "neutral", stop_loss |-> 0,
     take_profit |-> 0, partial_target |-> 0, atr |-> 0, position_pct |-> <<0, 1>>,
     peak_price |-> 0, pyramid_count |-> 0]

NoFusion ==
    [bull_score |-> 0, bear_score |-> 0, total_weight |-> 0, bull_count |-> 0,
     bear_count |-> 0]

\* What a call returned: kind is "none", "entry" or "pyramid" (the one Signal of
\* the returned list), with the locals of the fusion that led to it.
HgeNoRet ==
    [op |-> "init", kind |-> "none", why |-> "", symbol |-> "", direction |-> "neutral",
     score |-> <<0, 1>>, fusion |-> NoFusion, position_pct |-> <<0, 1>>,
     stop_loss |-> 0, take_profit |-> 0, pyramid_level |-> 0, current_price |-> 0]

\* The symbols the engine keeps books for, and the ones SpecHGE scans.
HgeSymbols == {"BTC/USD", "ETH/USD", "SOL/USD", "DOGE/USD", "XRP/USD"}
HgeScanSymbols == {"BTC/USD", "ETH/USD"}
NumActivePositionsMutant ==
    Cardinality({sym \in HgeSymbols : hge_active_positions[sym].present
                                           /\ hge_active_positions[sym].pyramid_count > 0})
NumActivePositions ==
    Cardinality({sym \in HgeSymbols : hge_active_positions[sym].present})

\* The stop, target and partial target of a new entry.
EntryLevels(direction, current_price, atr) ==
    IF direction = "bull"
    THEN LET hard_stop == (current_price * (100 - hard_stop_pct)) \div 100
             stop_loss == Max(current_price - atr * initial_stop_atr_mult, hard_stop)
             risk_per_share == current_price - stop_loss
         IN  [stop_loss |-> stop_loss,
              take_profit |-> current_price + risk_per_share * full_exit_r,
              partial_target |-> current_price + risk_per_share * partial_exit_r]
    ELSE LET hard_stop == (current_price * (100 + hard_stop_pct)) \div 100
             stop_loss == Min(current_price + atr * initial_stop_atr_mult, hard_stop)
             risk_per_share == stop_loss - current_price
         IN  [stop_loss |-> stop_loss,
              take_profit |-> current_price - risk_per_share * full_exit_r,
              partial_target |-> current_price - risk_per_share * partial_exit_r]

pyramid_triggers ==
    <<pyramid_add1_trigger_pct, pyramid_add2_trigger_pct, pyramid_add3_trigger_pct>>
pyramid_sizes ==
    <<pyramid_add1_size_pct, pyramid_add2_size_pct, pyramid_add3_size_pct>>

\* _check_pyramid decides to add: the position exists, pyramiding is on, the count
\* is below the maximum and gain_pct >= triggers[pyramid_count]
PyramidFiresMutant(pos, current_price) ==
    /\ pos.present
    /\ pyramid_enabled
    /\ pos.pyramid_count < max_pyramid_adds
    /\ LET gain == IF pos.direction = "bull"
                   THEN current_price - pos.entry_price
                   ELSE pos.entry_price - current_price
       IN  ~(gain * 100 < pyramid_triggers[1] * pos.entry_price)
PyramidFires(pos, current_price) ==
    /\ pos.present
    /\ pyramid_enabled
    /\ pos.pyramid_count < max_pyramid_adds
    /\ LET gain == IF pos.direction = "bull"
                   THEN current_price - pos.entry_price
                   ELSE pos.entry_price - current_price
       IN  ~(gain * 100 < pyramid_triggers[pos.pyramid_count + 1] * pos.entry_price)

\* _check_pyramid(market_state), when it returns a Signal
_check_pyramid(ms) ==
    LET pos == hge_active_positions[ms.symbol]
        new_stop == IF pos.direction = "bull"
                    THEN ms.current_price - pos.atr ELSE ms.current_price + pos.atr
    IN  /\ hge_active_positions' =
              [hge_active_positions EXCEPT ![ms.symbol] =
                  [pos EXCEPT !.pyramid_count = pos.pyramid_count + 1,
                              !.peak_price = ms.current_price]]
        /\ hge_ret' = [HgeNoRet EXCEPT !.op = "generate_signals", !.kind = "pyramid",
                          !.symbol = ms.symbol, !.direction = pos.direction,
                          !.score = <<80, 1>>,
                          !.position_pct = <<pyramid_sizes[pos.pyramid_count + 1], 1>>,
                          !.stop_loss = new_stop, !.take_profit = pos.take_profit,
                          !.pyramid_level = pos.pyramid_count + 1,
                          !.current_price = ms.current_price]

HgeReturnNone(ms, why) ==
    hge_ret' = [HgeNoRet EXCEPT !.op = "generate_signals", !.why = why,
                                !.symbol = ms.symbol,
                                !.current_price = ms.current_price]

\* generate_signals(market_state)
generate_signals(ms) ==
    LET today == utc_day
        daily_trades == IF hge_last_trade_date # today THEN 0 ELSE hge_daily_trades
        fused == _fuse_signals(ms.readings, ms.regime)
        position_pct == _calculate_position_size(fused.score, gt_current_equity)
        levels == EntryLevels(fused.direction, ms.current_price, ms.atr)
    IN  IF hge_is_halted
        THEN /\ HgeReturnNone(ms, "halted")
             /\ UNCHANGED <<hge_active_positions, hge_last_signal_age, hge_daily_trades,
                            hge_last_trade_date>>
        ELSE IF ms.bars < min_ohlcv_bars
        THEN /\ HgeReturnNone(ms, "short history")
             /\ UNCHANGED <<hge_active_positions, hge_last_signal_age, hge_daily_trades,
                            hge_last_trade_date>>
        ELSE /\ hge_last_trade_date' = today
             /\ IF daily_trades >= max_trades_per_day
                THEN /\ HgeReturnNone(ms, "daily trade limit")
                     /\ hge_daily_trades' = daily_trades
                     /\ UNCHANGED <<hge_active_positions, hge_last_signal_age>>
                ELSE IF hge_consecutive_losses >= hge_max_consecutive_losses
                THEN /\ HgeReturnNone(ms, "consecutive losses")
                     /\ hge_daily_trades' = daily_trades
                     /\ UNCHANGED <<hge_active_positions, hge_last_signal_age>>
                ELSE IF hge_last_signal_age[ms.symbol] * TickSeconds
                            < signal_cooldown_seconds
                THEN /\ HgeReturnNone(ms, "cooldown")
                     /\ hge_daily_trades' = daily_trades
                     /\ UNCHANGED <<hge_active_positions, hge_last_signal_age>>
                ELSE IF NumActivePositions >= max_concurrent_positions
                THEN /\ hge_daily_trades' = daily_trades
                     /\ UNCHANGED hge_last_signal_age
                     /\ IF PyramidFires(hge_active_positions[ms.symbol], ms.current_price)
                        THEN _check_pyramid(ms)
                        ELSE /\ HgeReturnNone(ms, "max positions")
                             /\ UNCHANGED hge_active_positions
                ELSE IF FracLess(fused.score, <<min_signal_strength, 1>>)
                        \/ fused.direction = "neutral"
                THEN /\ HgeReturnNone(ms, "no signal")
                     /\ hge_daily_trades' = daily_trades
                     /\ UNCHANGED <<hge_active_positions, hge_last_signal_age>>
                ELSE /\ daily_trades < MaxDailyTrades
                     /\ hge_last_signal_age' = [hge_last_signal_age EXCEPT ![ms.symbol] = 0]
                     /\ hge_daily_trades' = daily_trades + 1
                     /\ hge_active_positions' =
                           [hge_active_positions EXCEPT ![ms.symbol] =
                               [present |-> TRUE, entry_price |-> ms.current_price,
                                direction |-> fused.direction,
                                stop_loss |-> levels.stop_loss,
                                take_profit |-> levels.take_profit,
                                partial_target |-> levels.partial_target,
                                atr |-> ms.atr, position_pct |-> position_pct,
                                peak_price |-> ms.current_price, pyramid_count |-> 0]]
                     /\ hge_ret' = [HgeNoRet EXCEPT !.op = "generate_signals",
                                        !.kind = "entry", !.symbol = ms.symbol,
                                        !.direction = fused.direction,
                                        !.score = fused.score,
                                        !.fusion = FuseTotals(ms.readings, ms.regime),
                                        !.position_pct = position_pct,
                                        !.stop_loss = levels.stop_loss,
                                        !.take_profit = levels.take_profit,
                                        !.current_price = ms.current_price]

\* CompoundGrowthTracker.update(trade_return_pct), the return in percent
GrowthTrackerUpdateMutant(trade_return_pct) ==
    /\ gt_trade_returns' = Append(gt_trade_returns, trade_return_pct)
    /\ IF trade_return_pct > 0
       THEN gt_win_count' = gt_win_count + 1 /\ UNCHANGED gt_loss_count
       ELSE gt_loss_count' = gt_loss_count + 1 /\ UNCHANGED gt_win_count
    /\ gt_current_equity' = Frac(gt_current_equity[1] * 100
                                     + gt_current_equity[2] * starting_equity * trade_return_pct,
                                 gt_current_equity[2] * 100)
GrowthTrackerUpdate(trade_return_pct) ==
    /\ gt_trade_returns' = Append(gt_trade_returns, trade_return_pct)
    /\ IF trade_return_pct > 0
       THEN gt_win_count' = gt_win_count + 1 /\ UNCHANGED gt_loss_count
       ELSE gt_loss_count' = gt_loss_count + 1 /\ UNCHANGED gt_win_count
    /\ gt_current_equity' = Frac(gt_current_equity[1] * (100 + trade_return_pct),
                                 gt_current_equity[2] * 100)

\* on_position_close(symbol, entry_price, exit_price, side, pnl_pct)
on_position_close(symbol, pnl_pct) ==
    /\ Len(gt_trade_returns) < MaxClosedTrades
    /\ GrowthTrackerUpdate(pnl_pct)
    /\ hge_consecutive_losses' = IF pnl_pct > 0 THEN 0 ELSE hge_consecutive_losses + 1
    /\ hge_active_positions' = [hge_active_positions EXCEPT ![symbol] = NoPosition]
    /\ hge_ret' = [HgeNoRet EXCEPT !.op = "on_position_close", !.symbol = symbol]
    /\ UNCHANGED <<hge_last_signal_age, hge_daily_trades, hge_last_trade_date,
                   hge_is_halted>>

\* datetime.utcnow() moves on by TickSeconds: every last-signal time grows older
HgeTick ==
    /\ \E sym \in HgeSymbols : hge_last_signal_age[sym] < CooledAge
    /\ hge_last_signal_age' =
          [sym \in HgeSymbols |-> Min(hge_last_signal_age[sym] + 1, CooledAge)]
    /\ UNCHANGED <<hge_active_positions, hge_daily_trades, hge_last_trade_date,
                   hge_consecutive_losses, hge_is_halted, gt_current_equity,
                   gt_trade_returns, gt_win_count, gt_loss_count, hge_ret>>

HgeInit ==
    /\ hge_active_positions = [sym \in HgeSymbols |-> NoPosition]
    /\ hge_last_signal_age = [sym \in HgeSymbols |-> CooledAge]
    /\ hge_daily_trades = 0
    /\ hge_last_trade_date = -1
    /\ hge_consecutive_losses = 0
    /\ hge_is_halted = FALSE
    /\ gt_current_equity = <<starting_equity, 1>>
    /\ gt_trade_returns = <<>>
    /\ gt_win_count = 0
    /\ gt_loss_count = 0
    /\ hge_ret = HgeNoRet

\* A snapshot of the eight sources: the listed sources score, the others return
\* (0.0, "neutral").
Readings(scored) ==
    [i \in 1..NumSources |-> IF i \in DOMAIN scored THEN scored[i] ELSE ZeroReading]
Bull(score) == [score |-> score, direction |-> "bull"]
Bear(score) == [score |-> score, direction |-> "bear"]

\* Source outputs the signal functions can return: volume_explosion is at least
\* 0.3 (and half of it, "neutral", on a flat candle), vwap_reclaim 0.3 on a touch,
\* candle_pattern 0.7 on an inside bar; the others are continuous up to 1.0.
HgeReadings ==
    { Readings(<<>>),
      Readings((1 :> Bull(40)) @@ (4 :> Bull(30))),
      Readings((2 :> Bull(70)) @@ (5 :> Bull(100))),
      Readings((6 :> Bear(50)) @@ (7 :> Bear(70))),
      Readings((2 :> Bull(70))),
      Readings((1 :> [score |-> 20, direction |-> "neutral"]) @@ (7 :> Bear(70))),
      Readings((2 :> Bull(50)) @@ (3 :> Bull(40)) @@ (6 :> Bear(50)) @@ (8 :> Bear(40))),
      Readings((2 :> Bull(70)) @@ (3 :> Bull(40)) @@ (7 :> Bear(70))) }
HgeRegimes == {"neutral", "bull", "bear"}
HgePrices == {10000}
HgeAtrs == {300}
HgeBars == {19, 60}
ClosePnlPcts == {-10, 100}

\* The snapshots generate_signals is called with.  On a history of fewer than
\* min_ohlcv_bars bars the call returns before it reads anything else, so one
\* such snapshot per symbol stands for all of them.
MarketStates ==
    { ms \in [symbol : HgeScanSymbols, current_price : HgePrices, regime : HgeRegimes,
              readings : HgeReadings, atr : HgeAtrs, bars : HgeBars] :
        \/ ms.bars >= min_ohlcv_bars
        \/ ms.regime = "neutral" /\ ms.readings = Readings(<<>>) }

HgeGenerateSignals ==
    /\ \E ms \in MarketStates : generate_signals(ms)
    /\ UNCHANGED <<hge_consecutive_losses, hge_is_halted, gt_current_equity,
                   gt_trade_returns, gt_win_count, gt_loss_count>>

HgeOnPositionClose ==
    \E symbol \in HgeScanSymbols, pnl_pct \in ClosePnlPcts : on_position_close(symbol, pnl_pct)

\* The fusion totals make `direction` the strict winner above the threshold with a
\* quorum: both normalized scores are over the same total weight.
StrictlyFused(fusion, direction) ==
    LET own == IF direction = "bull" THEN fusion.bull_score ELSE fusion.bear_score
        other == IF direction = "bull" THEN fusion.bear_score ELSE fusion.bull_score
        count == IF direction = "bull" THEN fusion.bull_count ELSE fusion.bear_count
    IN  /\ direction \in {"bull", "bear"}
        /\ fusion.total_weight > 0
        /\ own > other
        /\ own > min_signal_strength * fusion.total_weight
        /\ count >= min_sources_agreeing

\* C8: a generate_signals call that runs the fusion emits an entry signal, or
\* registers a position, only if the direction's normalized score is strictly
\* greater than the other direction's, strictly exceeds min_signal_strength, and at
\* least min_sources_agreeing scoring sources voted for it; in every other case it
\* emits nothing and leaves the positions as they were.
C8_FusionEmitsOnlyAboveThreshold ==
    [][ ( /\ hge_ret'.op = "generate_signals"
          /\ hge_ret'.kind # "pyramid"
          /\ hge_ret'.kind = "entry" \/ hge_active_positions' # hge_active_positions )
        => ( /\ hge_ret'.kind = "entry"
             /\ StrictlyFused(hge_ret'.fusion, hge_ret'.direction) ) ]_vars

---------------------------------------------------------------------------
(***************************************************************************)
(* MemecoinEngine and MemecoinPosition (tms/memecoin/memecoin_engine.py)   *)
(* Prices are whole numbers of price units; a gain (unrealized_pnl_pct,    *)
(* peak_pnl_pct, a take-profit level) is a ratio kept as a reduced         *)
(* fraction <<n, d>>, a trail is in percent.  An exit reason is its text   *)
(* before the colon.  A price of 0 is the falsy answer of get_token_price. *)
(* Not modelled: the SOL amounts and the win / P&L statistics, which no    *)
(* decision reads.                                                         *)
(***************************************************************************)
\* MemecoinPosition defaults
stop_loss_pct == -25
trailing_stop_pct == 30
take_profit_levels == <<2, 5, 10, 20, 50, 100>>
partial_sell_pct == 20          \* manage_positions: execute_sell(mint, 0.20, ...)

MemeMints == {"BONK"}
NoMemePosition ==
    [present |-> FALSE, entry_price |-> 0, entry_amount_tokens |-> 0,
     current_price |-> 0, unrealized_pnl_pct |-> <<0, 1>>, peak_price |-> 0,
     peak_pnl_pct |-> <<0, 1>>, partial_exits_done |-> <<>>, is_active |-> FALSE]

\* MemecoinPosition.update_price(new_price)
update_price(pos, new_price) ==
    LET unrealized == IF pos.entry_price > 0
                      THEN Frac(new_price - pos.entry_price, pos.entry_price)
                      ELSE pos.unrealized_pnl_pct
    IN  [pos EXCEPT !.current_price = new_price,
                    !.unrealized_pnl_pct = unrealized,
                    !.peak_price = IF new_price > pos.peak_price
                                   THEN new_price ELSE pos.peak_price,
                    !.peak_pnl_pct = IF new_price > pos.peak_price
                                     THEN unrealized ELSE pos.peak_pnl_pct]

\* should_exit's tier table with the first tier's bound replaced: a peak gain of
\* any size takes the 15% trail.
TrailForMutant(peak_pnl_pct) == 15

\* The trail should_exit applies at a peak gain (> 0), in percent
TrailFor(peak_pnl_pct) ==
    IF ~FracLess(peak_pnl_pct, <<10, 1>>) THEN 15
    ELSE IF ~FracLess(peak_pnl_pct, <<5, 1>>) THEN 20
    ELSE IF ~FracLess(peak_pnl_pct, <<2, 1>>) THEN 25
    ELSE IF ~FracLess(peak_pnl_pct, <<1, 1>>) THEN 30
    ELSE IF ~FracLess(peak_pnl_pct, <<1, 2>>) THEN 35
    ELSE trailing_stop_pct

\* MemecoinPosition.should_exit()
should_exit(pos) ==
    IF ~pos.is_active THEN [exit |-> FALSE, reason |-> ""]
    ELSE IF ~FracLess(<<stop_loss_pct, 100>>, pos.unrealized_pnl_pct)
    THEN [exit |-> TRUE, reason |-> "Stop loss"]
    ELSE IF /\ FracLess(<<0, 1>>, pos.peak_pnl_pct)
            /\ pos.peak_price > 0
            /\ (pos.peak_price - pos.current_price) * 100
                   >= TrailFor(pos.peak_pnl_pct) * pos.peak_price
    THEN [exit |-> TRUE, reason |-> "Trailing stop"]
    ELSE [exit |-> FALSE, reason |-> ""]

InSeq(x, seq) == \E k \in 1..Len(seq) : seq[k] = x

RECURSIVE FirstOpenLevel(_, _)
\* get_partial_exit_level from level k on; 0 for None
FirstOpenLevel(pos, k) ==
    IF k > Len(take_profit_levels) THEN 0
    ELSE IF /\ ~FracLess(pos.unrealized_pnl_pct, <<take_profit_levels[k], 1>>)
            /\ ~InSeq(<<take_profit_levels[k], 1>>, pos.partial_exits_done)
    THEN take_profit_levels[k]
    ELSE FirstOpenLevel(pos, k + 1)

\* MemecoinPosition.get_partial_exit_level()
get_partial_exit_level(pos) == FirstOpenLevel(pos, 1)

MemeNoRet ==
    [op |-> "init", evaluated |-> FALSE, entry_price |-> 0, peak_price |-> 0,
     current_price |-> 0, peak_pnl_pct |-> <<0, 1>>, unrealized_pnl_pct |-> <<0, 1>>,
     exit |-> FALSE, reason |-> "", partial_level |-> 0, sold |-> FALSE]

\* execute_sell(mint, sell_pct, reason) on the position `pos` of self.positions:
\* the position left in the map (NoMemePosition: deleted), the records appended to
\* closed_positions, and whether the swap was made.
SellOutcome(pos, sell_pct, reason, swap_ok) ==
    LET sell_amount == (pos.entry_amount_tokens * sell_pct) \div 100
    IN  IF ~pos.present \/ sell_amount <= 0 \/ ~swap_ok
        THEN [pos |-> pos, closed |-> <<>>, sold |-> FALSE]
        ELSE IF sell_pct >= 99
        THEN [pos |-> NoMemePosition,
              closed |-> << [exit_reason |-> reason, exit_price |-> pos.current_price,
                             realized_pnl_pct |-> pos.unrealized_pnl_pct] >>,
              sold |-> TRUE]
        ELSE [pos |-> [pos EXCEPT
                         !.partial_exits_done = Append(@, pos.unrealized_pnl_pct),
                         !.entry_amount_tokens = (@ * (100 - sell_pct)) \div 100],
              closed |-> <<>>, sold |-> TRUE]

\* One turn of the loop of manage_positions, for one position of the map.
ManageOne(pos, price, swap_ok) ==
    IF ~pos.present \/ ~pos.is_active
    THEN [pos |-> pos, closed |-> <<>>, ret |-> [MemeNoRet EXCEPT !.op = "manage_positions"]]
    ELSE LET priced == IF price # 0 THEN update_price(pos, price) ELSE pos
             verdict == should_exit(priced)
             partial_level == get_partial_exit_level(priced)
             sale == IF verdict.exit
                     THEN SellOutcome(priced, 100, verdict.reason, swap_ok)
                     ELSE IF partial_level # 0
                     THEN SellOutcome(priced, partial_sell_pct, "Partial profit", swap_ok)
                     ELSE [pos |-> priced, closed |-> <<>>, sold |-> FALSE]
         IN  [pos |-> sale.pos, closed |-> sale.closed,
              ret |-> [op |-> "manage_positions", evaluated |-> TRUE,
                       entry_price |-> priced.entry_price,
                       peak_price |-> priced.peak_price,
                       current_price |-> priced.current_price,
                       peak_pnl_pct |-> priced.peak_pnl_pct,
                       unrealized_pnl_pct |-> priced.unrealized_pnl_pct,
                       exit |-> verdict.exit, reason |-> verdict.reason,
                       partial_level |-> IF verdict.exit THEN 0 ELSE partial_level,
                       sold |-> sale.sold]]

\* The order in which the loop visits the mints.
MemeMintOrder == <<"BONK">>
RECURSIVE ClosedInOrder(_, _)
ClosedInOrder(outcome, k) ==
    IF k = 0 THEN <<>>
    ELSE ClosedInOrder(outcome, k - 1) \o outcome[MemeMintOrder[k]].closed

\* manage_positions(), with the price get_token_price answers for each mint and
\* whether each swap succeeds
manage_positions(prices, swaps_ok) ==
    LET outcome == [mint \in MemeMints |->
                       ManageOne(meme_positions[mint], prices[mint], swaps_ok[mint])]
    IN  /\ meme_positions' = [mint \in MemeMints |-> outcome[mint].pos]
        /\ meme_closed_positions' =
              meme_closed_positions \o ClosedInOrder(outcome, Len(MemeMintOrder))
        /\ meme_ret' = [mint \in MemeMints |-> outcome[mint].ret]
        /\ UNCHANGED meme_total_trades

\* execute_buy(mint, ...), with the outcome of the swap and of get_token_price
execute_buy(mint, swap_ok, out_amount, entry_price) ==
    IF ~swap_ok
    THEN /\ meme_ret' = [meme_ret EXCEPT ![mint] = [MemeNoRet EXCEPT !.op = "execute_buy"]]
         /\ UNCHANGED <<meme_positions, meme_closed_positions, meme_total_trades>>
    ELSE /\ meme_total_trades < MaxMemeBuys
         /\ meme_positions' =
               [meme_positions EXCEPT ![mint] =
                   [present |-> TRUE, entry_price |-> entry_price,
                    entry_amount_tokens |-> out_amount, current_price |-> entry_price,
                    unrealized_pnl_pct |-> <<0, 1>>, peak_price |-> entry_price,
                    peak_pnl_pct |-> <<0, 1>>, partial_exits_done |-> <<>>,
                    is_active |-> TRUE]]
         /\ meme_total_trades' = meme_total_trades + 1
         /\ meme_ret' = [meme_ret EXCEPT ![mint] =
                            [MemeNoRet EXCEPT !.op = "execute_buy", !.sold = TRUE]]
         /\ UNCHANGED meme_closed_positions

\* execute_sell(mint, 1.0, reason) called on its own (a sell request, shutdown)
execute_sell(mint, swap_ok) ==
    LET sale == SellOutcome(meme_positions[mint], 100, "Manual sell", swap_ok)
    IN  /\ meme_positions' = [meme_positions EXCEPT ![mint] = sale.pos]
        /\ meme_closed_positions' = meme_closed_positions \o sale.closed
        /\ meme_ret' = [meme_ret EXCEPT ![mint] =
                           [MemeNoRet EXCEPT !.op = "execute_sell", !.sold = sale.sold]]
        /\ UNCHANGED meme_total_trades

MemeEntryPrices == {0, 100}
MemeOutAmounts == {0, 10}
MemePrices == {0, 80, 97, 100, 115, 150, 200, 350, 600, 1100}

MemeInit ==
    /\ meme_positions = [mint \in MemeMints |-> NoMemePosition]
    /\ meme_closed_positions = <<>>
    /\ meme_total_trades = 0
    /\ meme_ret = [mint \in MemeMints |-> MemeNoRet]

MemeExecuteBuy ==
    \E mint \in MemeMints, swap_ok \in BOOLEAN,
       out_amount \in MemeOutAmounts, entry_price \in MemeEntryPrices :
        execute_buy(mint, swap_ok, out_amount, entry_price)

MemeExecuteSell ==
    \E mint \in MemeMints, swap_ok \in BOOLEAN : execute_sell(mint, swap_ok)

MemeManagePositions ==
    \E prices \in [MemeMints -> MemePrices], swaps_ok \in [MemeMints -> BOOLEAN] :
        manage_positions(prices, swaps_ok)

\* C9: for every position the trailing-stop distance should_exit applies is a
\* non-increasing function of the peak gain: whenever the peak gain of an open
\* position (already > 0) grows, the trail that applies does not widen, the step
\* from the default tier to the +50% tier included.
C9_TrailNarrowsWithPeakGain ==
    [][ \A mint \in MemeMints :
          LET before == meme_positions[mint]
              after == meme_positions'[mint]
          IN  ( /\ before.present /\ before.is_active
                /\ after.present /\ after.is_active
                /\ FracLess(<<0, 1>>, before.peak_pnl_pct)
                /\ ~FracLess(after.peak_pnl_pct, before.peak_pnl_pct) )
              => TrailFor(after.peak_pnl_pct) <= TrailFor(before.peak_pnl_pct) ]_vars

\* What should_exit saw in the last manage_positions turn for `mint`.
StopLossHit(r) == r.unrealized_pnl_pct[1] * 100 <= stop_loss_pct * r.unrealized_pnl_pct[2]
TrailReached(r) ==
    /\ r.peak_pnl_pct[1] > 0
    /\ r.peak_price > 0
    /\ (r.peak_price - r.current_price) * 100 >= TrailFor(r.peak_pnl_pct) * r.peak_price
ScenarioC(r, price) ==
    /\ r.op = "manage_positions" /\ r.evaluated
    /\ r.entry_price = 100 /\ r.peak_price = 115 /\ r.current_price = price

\* C10 (as amended): a position entered at 100 whose price rose to 115 stays open
\* when the price falls to 100 and also when it falls further to 97 (15.65% below
\* the peak, under the 30% trail that applies at a peak gain of 15%); in general
\* should_exit returns a full exit as soon as the drawdown from the peak is >= the
\* trail that applies at the peak gain (> 0), with the reason "Trailing stop"
\* unless the -25% stop loss fired first, and it gives that reason in no other case.
C10_TrailingStopAtApplicableTrail ==
    \A mint \in MemeMints :
        LET r == meme_ret[mint]
        IN  (r.op = "manage_positions" /\ r.evaluated) =>
              /\ (ScenarioC(r, 100) \/ ScenarioC(r, 97)) => ~r.exit
              /\ TrailReached(r) => r.exit
              /\ (r.exit /\ r.reason = "Trailing stop")
                     <=> (TrailReached(r) /\ ~StopLossHit(r))
              /\ (r.exit /\ r.reason = "Stop loss") <=> StopLossHit(r)

\* C10 witness: 100 -> 115 -> 97 has been managed and the position is still open.
C10_Witness ==
    \E mint \in MemeMints :
        /\ ScenarioC(meme_ret[mint], 97)
        /\ ~meme_ret[mint].exit
        /\ meme_positions[mint].present /\ meme_positions[mint].is_active
        /\ meme_closed_positions = <<>>

\* C10 as stated: in Scenario C the fall to 97 makes should_exit return a full exit
\* whose reason is "Trailing stop".
C10_ScenarioCExitsAt97 ==
    \A mint \in MemeMints :
        ScenarioC(meme_ret[mint], 97)
            => (meme_ret[mint].exit /\ meme_ret[mint].reason = "Trailing stop")

\* C11: a partial-exit level is harvested at most once per position: when a
\* manage_positions turn has executed a partial exit for a take-profit level, the
\* next turn for the same position does not return that level again, whatever the
\* price it sees (the same unchanged price included).
C11_PartialLevelHarvestedOnce ==
    [][ \A mint \in MemeMints :
          ( /\ meme_ret[mint].op = "manage_positions"
            /\ meme_ret[mint].partial_level # 0
            /\ meme_ret[mint].sold
            /\ meme_ret'[mint].op = "manage_positions"
            /\ meme_ret'[mint].evaluated )
          => meme_ret'[mint].partial_level # meme_ret[mint].partial_level ]_vars

---------------------------------------------------------------------------
(***************************************************************************)
(* HARDetector and the trading loop (run_api.py)                           *)
(* Win rates are fractions <<n, d>> in lowest terms, regime confidence is  *)
(* in percent, unrealized_plpc and the stop-loss / take-profit limits in   *)
(* thousandths.                                                            *)
(***************************************************************************)
har_lookback == 20            \* HARDetector(lookback=20, ...)
har_threshold == <<2, 5>>     \* HARDetector(..., threshold=0.4)
har_min_trades == 5           \* if len(recent) < 5
har_neutral == <<1, 2>>       \* return 0.5
har_min_regime_confidence == 60   \* should_trade: regime_confidence < 0.6
STRATEGY_CONFIG_stop_loss_pct == 15     \* STRATEGY_CONFIG["stop_loss_pct"] = 0.015
STRATEGY_CONFIG_take_profit_pct == 50   \* STRATEGY_CONFIG["take_profit_pct"] = 0.05

\* A trade_log entry (a dict): the keys it carries, and the values under the keys
\* the model reads.
LogEntry(side, strategy, keys, pnl, pnl_pct) ==
    [side |-> side, strategy |-> strategy, keys |-> keys, pnl |-> pnl, pnl_pct |-> pnl_pct]

\* the entry execute_trade appends: time, symbol, side, qty, price, strategy,
\* reason, order_id
OrderEntry(side) ==
    LogEntry(side, "signal",
             {"time", "symbol", "side", "qty", "price", "strategy", "reason", "order_id"}, 0, 0)
\* the entry check_hard_stop appends: time, symbol, side, qty, strategy, reason
HardStopEntry ==
    LogEntry("close", "hard_stop", {"time", "symbol", "side", "qty", "strategy", "reason"}, 0, 0)
\* the entries check_stop_loss_take_profit appends: time, symbol, side, qty,
\* strategy, pnl_pct
StopLossEntry(pnl_pct) ==
    LogEntry("close", "stop_loss", {"time", "symbol", "side", "qty", "strategy", "pnl_pct"},
             0, pnl_pct)
TakeProfitEntry(pnl_pct) ==
    LogEntry("close", "take_profit", {"time", "symbol", "side", "qty", "strategy", "pnl_pct"},
             0, pnl_pct)
\* an entry a caller of the detector supplies with a "pnl" key
PnlEntry(pnl) ==
    LogEntry("sell", "caller", {"time", "symbol", "side", "pnl"}, pnl, 0)

\* t.get("pnl", 0)
GetPnl(t) == IF "pnl" \in t.keys THEN t.pnl ELSE 0

\* trade_log[-self.lookback:]
RecentTradesMutant(log) == log
RecentTrades(log) ==
    IF Len(log) <= har_lookback THEN log
    ELSE SubSeq(log, Len(log) - har_lookback + 1, Len(log))

\* sum(1 for t in recent if t.get("pnl", 0) > 0)
HarWins(recent) == Cardinality({i \in 1..Len(recent) : GetPnl(recent[i]) > 0})

\* HARDetector.calculate_har
calculate_har(log) ==
    IF Len(log) = 0 THEN har_neutral
    ELSE LET recent == RecentTrades(log)
         IN  IF Len(recent) < har_min_trades THEN har_neutral
             ELSE Frac(HarWins(recent), Len(recent))

\* is_decaying = current_har < self.threshold
IsDecayingMutant(current_har) == ~FracLess(har_threshold, current_har)
IsDecaying(current_har) == FracLess(current_har, har_threshold)

HarNoRet ==
    [op |-> "none", log |-> <<>>, har |-> har_neutral, is_decaying |-> FALSE,
     was_inactive |-> FALSE, alerts_before |-> 0]

\* HARDetector.detect_edge_decay(trade_log)
detect_edge_decay(log) ==
    LET current_har == calculate_har(log)
        is_decaying == IsDecaying(current_har)
    IN  /\ IF is_decaying /\ ~har_strategic_inactivity
           THEN /\ har_strategic_inactivity' = TRUE
                /\ har_alerts' = Append(har_alerts, "edge_decay")
           ELSE IF ~is_decaying /\ har_strategic_inactivity
           THEN /\ har_strategic_inactivity' = FALSE
                /\ har_alerts' = Append(har_alerts, "edge_restored")
           ELSE UNCHANGED <<har_strategic_inactivity, har_alerts>>
        /\ har_ret' = [op |-> "detect_edge_decay", log |-> log, har |-> current_har,
                       is_decaying |-> is_decaying,
                       was_inactive |-> har_strategic_inactivity,
                       alerts_before |-> Len(har_alerts)]

\* HARDetector.should_trade(regime_confidence): the bool of the pair it returns
ShouldTradeMutant(strategic_inactivity, regime_confidence) ==
    regime_confidence >= har_min_regime_confidence
should_trade(strategic_inactivity, regime_confidence) ==
    IF strategic_inactivity THEN FALSE
    ELSE IF regime_confidence < har_min_regime_confidence THEN FALSE
    ELSE TRUE

\* Trade logs handed to the detector: winners, then losers, then winners.
Repeat(x, n) == [i \in 1..n |-> x]
HarLogs ==
    { Repeat(PnlEntry(10), a) \o Repeat(PnlEntry(-5), b) \o Repeat(PnlEntry(10), c) :
        a \in {0, 1, 9}, b \in {0, 3, 4, 12, 20}, c \in {0, 1, 2, 3} }

\* ---- the trading loop ----
\* Symbols of the broker's positions (p.symbol, the signal's symbol with "/" removed);
\* they are crypto symbols, which execute_trade does not sell short.
LoopSymbols == {"BTCUSD"}
\* the order get_all_positions lists them in
LoopSymbolOrder == <<"BTCUSD">>

\* execute_trade(signal) with the broker holding `positions`: whether it succeeded,
\* and the trade log and the positions after the market order
ExecuteTradeOutcome(signal, log, positions) ==
    LET held == signal.symbol \in positions
        refused == [success |-> FALSE, log |-> log, positions |-> positions]
    IN  IF signal.side = "sell"
        THEN IF held
             THEN [success |-> TRUE, log |-> Append(log, OrderEntry("sell")),
                   positions |-> positions \ {signal.symbol}]
             ELSE refused
        ELSE IF held THEN refused
        ELSE IF Cardinality(positions) >= max_positions THEN refused
        ELSE [success |-> TRUE, log |-> Append(log, OrderEntry("buy")),
              positions |-> positions \cup {signal.symbol}]

\* check_hard_stop: past the hard stop every position is closed and logged
RECURSIVE HardStopCloses(_, _, _)
HardStopCloses(k, log, positions) ==
    IF k > Len(LoopSymbolOrder) THEN log
    ELSE IF LoopSymbolOrder[k] \in positions
    THEN HardStopCloses(k + 1, Append(log, HardStopEntry), positions)
    ELSE HardStopCloses(k + 1, log, positions)

check_hard_stop(log, positions, hour, minute) ==
    IF ~is_past_hard_stop(hour, minute) THEN [log |-> log, positions |-> positions]
    ELSE [log |-> HardStopCloses(1, log, positions), positions |-> {}]

\* the for loop of check_stop_loss_take_profit over the positions still open
RECURSIVE StopLossTakeProfitCloses(_, _, _, _)
StopLossTakeProfitCloses(k, log, positions, plpc) ==
    IF k > Len(LoopSymbolOrder) THEN [log |-> log, positions |-> positions]
    ELSE LET p == LoopSymbolOrder[k]
         IN  IF p \notin positions
             THEN StopLossTakeProfitCloses(k + 1, log, positions, plpc)
             ELSE IF plpc[p] <= -STRATEGY_CONFIG_stop_loss_pct
             THEN StopLossTakeProfitCloses(k + 1, Append(log, StopLossEntry(plpc[p])),
                                           positions \ {p}, plpc)
             ELSE IF plpc[p] >= STRATEGY_CONFIG_take_profit_pct
             THEN StopLossTakeProfitCloses(k + 1, Append(log, TakeProfitEntry(plpc[p])),
                                           positions \ {p}, plpc)
             ELSE StopLossTakeProfitCloses(k + 1, log, positions, plpc)

\* check_stop_loss_take_profit: the hard stop first, then the per-position limits
check_stop_loss_take_profit(log, positions, plpc, hour, minute) ==
    LET hs == check_hard_stop(log, positions, hour, minute)
    IN  StopLossTakeProfitCloses(1, hs.log, hs.positions, plpc)

LoopNoRet ==
    [ran |-> FALSE, inactive |-> FALSE, had_signal |-> FALSE, verify_calls |-> 0,
     executed |-> 0, swept_positions |-> {}, plpc |-> 0, log_before |-> 0]

\* Inputs of a cycle: what the market scan returns (no signal or one signal), the
\* regime confidence, alpha_engine.should_trade("MARKET"), and the unrealized_plpc
\* the broker reports for each position.
LoopSignals ==
    { [symbol |-> "BTCUSD", side |-> "buy", strength |-> 51],
      [symbol |-> "BTCUSD", side |-> "buy", strength |-> 20],
      [symbol |-> "BTCUSD", side |-> "sell", strength |-> 51] }
LoopSignalLists == {<<>>} \cup { <<s>> : s \in LoopSignals }
LoopRegimeConfidences == {50, 70}
LoopPlpcValues == {-15, 0, 50}
LoopState(regime_confidence) ==
    [noise_level |-> 10, current_drawdown |-> 0, daily_pnl_pct |-> 0,
     regime_confidence |-> regime_confidence]

\* One cycle of trading_loop (alpaca_client connected, trading_active true).
trading_loop(all_signals, regime_confidence, tox_ok, plpc) ==
    /\ Len(trade_log) < MaxLogLen
    /\ detect_edge_decay(trade_log)
    /\ LET har_ok == should_trade(har_strategic_inactivity', regime_confidence)
           has_signal == har_ok /\ tox_ok /\ Len(all_signals) > 0
           signal == all_signals[1]
           state == LoopState(regime_confidence)
           n_positions == Cardinality(broker_positions)
           verified ==
               has_signal /\ VerifyResult(signal, state, n_positions, et_hour, et_minute).valid
           exec == IF verified
                   THEN ExecuteTradeOutcome(signal, trade_log, broker_positions)
                   ELSE [success |-> FALSE, log |-> trade_log, positions |-> broker_positions]
           swept == check_stop_loss_take_profit(exec.log, exec.positions, plpc,
                                                et_hour, et_minute)
       IN  /\ IF has_signal
              THEN /\ ver_signals_verified + ver_signals_rejected < MaxLoopVerifyCalls
                   /\ VerifySignalCall(signal, state, n_positions)
              ELSE UNCHANGED verVars
           /\ trade_log' = swept.log
           /\ broker_positions' = swept.positions
           /\ loop_ret' = [ran |-> TRUE, inactive |-> har_strategic_inactivity',
                           had_signal |-> Len(all_signals) > 0,
                           verify_calls |-> IF has_signal THEN 1 ELSE 0,
                           executed |-> IF exec.success THEN 1 ELSE 0,
                           swept_positions |-> exec.positions,
                           plpc |-> plpc[LoopSymbolOrder[1]],
                           log_before |-> Len(trade_log)]

HarInit ==
    /\ trade_log = <<>>
    /\ broker_positions = {}
    /\ har_strategic_inactivity = FALSE
    /\ har_alerts = <<>>
    /\ har_ret = HarNoRet
    /\ loop_ret = LoopNoRet

HarDetectEdgeDecay ==
    /\ Len(har_alerts) < MaxHarAlerts
    /\ \E log \in HarLogs : detect_edge_decay(log)
    /\ UNCHANGED <<trade_log, broker_positions, loop_ret>>

TradingLoopCycle ==
    \E all_signals \in LoopSignalLists, regime_confidence \in LoopRegimeConfidences,
       tox_ok \in BOOLEAN, plpc \in [LoopSymbols -> LoopPlpcValues] :
        trading_loop(all_signals, regime_confidence, tox_ok, plpc)

---------------------------------------------------------------------------
(***************************************************************************)
(* Claims about the HARDetector, checked under SpecHAR, and about the      *)
(* trading loop, checked under SpecLoop.                                   *)
(***************************************************************************)
\* C12: the win rate detect_edge_decay works with is computed from the last
\* min(len, lookback) entries of the log it is given; on a log of fewer than 5
\* entries it is exactly 0.5 and the call does not enter strategic inactivity.
C12_WindowAndMinimumTrades ==
    har_ret.op = "detect_edge_decay" =>
        LET log == har_ret.log
            n == Len(log)
            k == Min(n, 20)
            wins == Cardinality({i \in (n - k + 1)..n : GetPnl(log[i]) > 0})
        IN  /\ n >= 5 => har_ret.har = Frac(wins, k)
            /\ n < 5 => /\ har_ret.har = <<1, 2>>
                        /\ ~(har_strategic_inactivity /\ ~har_ret.was_inactive)

\* C12 witness: a log of four losing trades reads 0.5 and leaves the monitor active.
C12_Witness ==
    /\ har_ret.op = "detect_edge_decay"
    /\ Len(har_ret.log) = 4
    /\ \A i \in 1..4 : GetPnl(har_ret.log[i]) < 0
    /\ har_ret.har = <<1, 2>>
    /\ ~har_ret.was_inactive
    /\ ~har_strategic_inactivity

\* What the last detect_edge_decay call did to the flag and to the alerts.
HarEntered == ~har_ret.was_inactive /\ har_strategic_inactivity
HarLeft == har_ret.was_inactive /\ ~har_strategic_inactivity
HarNewAlerts == SubSeq(har_alerts, har_ret.alerts_before + 1, Len(har_alerts))

C14_InactiveCycleOnlyExits ==
    (loop_ret.ran /\ loop_ret.inactive) =>
        /\ loop_ret.verify_calls = 0
        /\ loop_ret.executed = 0
        /\ \A p \in loop_ret.swept_positions :
              (loop_ret.plpc <= -15 \/ loop_ret.plpc >= 50) =>
                  /\ p \notin broker_positions
                  /\ Len(trade_log) > loop_ret.log_before
                  /\ trade_log[Len(trade_log)].side = "close"

\* C14 witness: an inactive cycle whose scan returned a signal and in which an open
\* position was closed at its take-profit limit.
C14_Witness ==
    /\ loop_ret.ran
    /\ loop_ret.inactive
    /\ loop_ret.had_signal
    /\ loop_ret.swept_positions # {}
    /\ loop_ret.plpc = 50
    /\ broker_positions = {}
    /\ trade_log[Len(trade_log)].strategy = "take_profit"

\* C15: the win rate calculate_har gives for the trading loop's log is a win rate
\* over closed trades: with 5 or more entries in the window it is at least the share
\* of closes logged with a positive realized P&L, and the order entries of
\* execute_trade do not lower it (it is the win rate of the close entries alone).
C15_WinRateOverClosedTrades ==
    LET recent == RecentTrades(trade_log)
        winners == {i \in 1..Len(recent) :
                       /\ recent[i].side = "close"
                       /\ "pnl_pct" \in recent[i].keys
                       /\ recent[i].pnl_pct > 0}
        closes == SelectSeq(trade_log, LAMBDA t : t.side = "close")
    IN  /\ Len(recent) >= 5 =>
              ~FracLess(calculate_har(trade_log), Frac(Cardinality(winners), Len(recent)))
        /\ calculate_har(trade_log) = calculate_har(closes)

---------------------------------------------------------------------------
(***************************************************************************)
(* CompoundGrowthTracker on its own, checked under SpecTracker.            *)
(***************************************************************************)
\* Returns handed to CompoundGrowthTracker.update, in percent.
TrackerReturns == {-50, -10, 0, 25, 100}

TrackerUpdate ==
    /\ Len(gt_trade_returns) < MaxTrackerUpdates
    /\ \E trade_return_pct \in TrackerReturns : GrowthTrackerUpdate(trade_return_pct)
    /\ UNCHANGED <<hge_active_positions, hge_last_signal_age, hge_daily_trades,
                   hge_last_trade_date, hge_consecutive_losses, hge_is_halted, hge_ret>>

\* equity * (1 + r_k) * ... * (1 + r_N), the returns in percent, taken from the
\* last return backwards
RECURSIVE CompoundFrom(_, _, _)
CompoundFrom(equity, returns, k) ==
    IF k = 0 THEN equity
    ELSE CompoundFrom(Frac(equity[1] * (100 + returns[k]), equity[2] * 100), returns, k - 1)

\* C16: after any sequence of update calls, current_equity is starting_equity times
\* the product of (1 + r_i) over the recorded returns, and win_count + loss_count
\* is the number of recorded returns.
C16_EquityIsCompoundedProduct ==
    /\ gt_current_equity = CompoundFrom(<<100, 1>>, gt_trade_returns, Len(gt_trade_returns))
    /\ gt_win_count + gt_loss_count = Len(gt_trade_returns)

\* C16 witness: three recorded returns, a win of 100%, a loss of 50% and a win of
\* 25%, leave 100 * 2 * 0.5 * 1.25 = 125.
C16_Witness ==
    /\ gt_trade_returns = <<100, -50, 25>>
    /\ gt_current_equity = <<125, 1>>
    /\ gt_win_count = 2
    /\ gt_loss_count = 1

---------------------------------------------------------------------------
(***************************************************************************)
(* HyperGrowthEngine with a full book of positions, checked under          *)
(* SpecHGEBook: four symbols, so that max_concurrent_positions is reached  *)
(* and _check_pyramid runs.                                                *)
(***************************************************************************)
\* ema_ribbon and hh_hl_structure both at full score, the other sources silent
BookBull == Readings((2 :> Bull(100)) @@ (6 :> Bull(100)))
BookBear == Readings((2 :> Bear(100)) @@ (6 :> Bear(100)))
BookPrices == {9400, 10000, 10600}
\* _calculate_atr: 0 when the last atr_period bars are flat
BookAtrs == {0, 300}
BookSideSymbols == {"ETH/USD", "SOL/USD", "DOGE/USD"}

\* The snapshots generate_signals is called with: BTC/USD moves, the other
\* symbols are quoted at one price.
BookMarketStates ==
    { [symbol |-> "BTC/USD", current_price |-> p, regime |-> "neutral",
       readings |-> r, atr |-> a, bars |-> 60] :
         p \in BookPrices, r \in {BookBull, BookBear}, a \in BookAtrs }
    \cup
    { [symbol |-> sym, current_price |-> 10000, regime |-> "neutral",
       readings |-> BookBull, atr |-> 300, bars |-> 60] :
         sym \in BookSideSymbols }

BookGenerateSignals ==
    /\ \E ms \in BookMarketStates : generate_signals(ms)
    /\ UNCHANGED <<hge_consecutive_losses, hge_is_halted, gt_current_equity,
                   gt_trade_returns, gt_win_count, gt_loss_count>>

\* What the step did to the book entry of sym.
BookAdded(sym) ==
    /\ hge_ret'.op = "generate_signals"
    /\ hge_ret'.kind = "pyramid"
    /\ hge_ret'.symbol = sym
    /\ hge_ret' # hge_ret
BookEntered(sym) ==
    /\ hge_ret'.op = "generate_signals"
    /\ hge_ret'.kind = "entry"
    /\ hge_ret'.symbol = sym
\* the gain of a position at a price, in its own direction
GainAt(pos, price) ==
    IF pos.direction = "bull" THEN price - pos.entry_price ELSE pos.entry_price - price

\* C17: the pyramid count of every registered position stays within 0..3; a pyramid
\* add is emitted only for a position whose count is below 3 and whose gain in its
\* own direction is at least the trigger of the next level (3%, 6%, 10%), so never
\* at a loss; the add carries the next level and raises the count to it, and while
\* the position stays registered its count never goes down and changes only by an
\* add, so no level is emitted twice and none after the third.
C17_PyramidWithinLevels ==
    [][ \A sym \in HgeSymbols :
          LET pos == hge_active_positions[sym]
              new == hge_active_positions'[sym]
              level == hge_ret'.pyramid_level
          IN  /\ new.pyramid_count \in 0..3
              /\ BookAdded(sym) =>
                    /\ pos.present
                    /\ pos.pyramid_count < 3
                    /\ level = pos.pyramid_count + 1
                    /\ new.pyramid_count = level
                    /\ GainAt(pos, hge_ret'.current_price) * 100
                          >= <<3, 6, 10>>[level] * pos.entry_price
                    /\ GainAt(pos, hge_ret'.current_price) > 0
              /\ (pos.present /\ new.present /\ ~BookEntered(sym)) =>
                    new.pyramid_count >= pos.pyramid_count
              /\ (new.pyramid_count # pos.pyramid_count) =>
                    BookAdded(sym) \/ BookEntered(sym) \/ ~new.present ]_vars

\* C17 witness: the third add of a short position, after which its count is 3.
C17_Witness ==
    /\ hge_ret.kind = "pyramid"
    /\ hge_ret.pyramid_level = 3
    /\ hge_ret.direction = "bear"
    /\ hge_active_positions[hge_ret.symbol].pyramid_count = 3

\* C18: the recorded peak price of an open long position tracks the best price
\* since entry: while the position stays registered, peak_price never decreases and
\* is at least the price of every generate_signals call made for its symbol.
C18_PeakTracksBestPrice ==
    [][ \A sym \in HgeSymbols :
          LET pos == hge_active_positions[sym]
              new == hge_active_positions'[sym]
          IN  (pos.present /\ new.present /\ new.direction = "bull" /\ ~BookEntered(sym)) =>
                  /\ new.peak_price >= pos.peak_price
                  /\ (hge_ret'.op = "generate_signals" /\ hge_ret'.symbol = sym) =>
                        new.peak_price >= hge_ret'.current_price ]_vars

\* C19: every entry generate_signals emits at a price > 0 has its stop strictly on
\* the losing side of the entry price (0 < stop < entry for a long, stop > entry for
\* a short), whatever ATR was computed, and a take-profit other than the entry price.
C19_StopOnLosingSide ==
    (hge_ret.op = "generate_signals" /\ hge_ret.kind = "entry" /\ hge_ret.current_price > 0) =>
        /\ hge_ret.direction = "bull" =>
              0 < hge_ret.stop_loss /\ hge_ret.stop_loss < hge_ret.current_price
        /\ hge_ret.direction = "bear" => hge_ret.stop_loss > hge_ret.current_price
        /\ hge_ret.take_profit # hge_ret.current_price

\* the pyramid sizes added to a position so far, in percent of equity
AddedPct(pyramid_count) ==
    IF pyramid_count = 0 THEN 0
    ELSE IF pyramid_count = 1 THEN 15
    ELSE IF pyramid_count = 2 THEN 25
    ELSE 33
\* the sum over the registered positions of the initial size and the adds
RECURSIVE ExposureOf(_)
ExposureOf(syms) ==
    IF syms = {} THEN <<0, 1>>
    ELSE LET sym == CHOOSE x \in syms : TRUE
             rest == ExposureOf(syms \ {sym})
             pos == hge_active_positions[sym]
             own == IF pos.present
                    THEN <<pos.position_pct[1] + AddedPct(pos.pyramid_count) * pos.position_pct[2],
                           pos.position_pct[2]>>
                    ELSE <<0, 1>>
         IN  Frac(rest[1] * own[2] + own[1] * rest[2], rest[2] * own[2])

\* C20: in every reachable state the total exposure, the sum over the active
\* positions of the initial position_pct and of the pyramid adds, is at most 85%.
C20_TotalExposureCapped ==
    ~FracLess(<<85, 1>>, ExposureOf(HgeSymbols))

---------------------------------------------------------------------------
(***************************************************************************)
(* Further claims about AggressiveRiskManager, checked under SpecARM.      *)
(***************************************************************************)
\* C21: calculate_position_size never raises, on small or zero equity included, and
\* never returns a notional (position_usd) larger than the equity it was given: the
\* minimum-trade-value floor is applied only when the floored notional is affordable.
C21_FloorOnlyIfAffordable ==
    arm_ret.op = "calculate_position_size" =>
        /\ ~arm_ret.raised
        /\ arm_ret.usd_n <= arm_ret.equity * arm_ret.usd_d

---------------------------------------------------------------------------
(***************************************************************************)
(* run_api.py: the trading loop as an asyncio task, with start_trading and *)
(* stop_trading.  The event loop is single-threaded: a request handler     *)
(* runs only while the task is suspended at an await that really yields,   *)
(* so drv_pc names the await the task is suspended at, or the statement it *)
(* is about to run inside a segment that does not yield.  The verifier's   *)
(* verdicts and the Kelly sizes are inputs of this component; their        *)
(* computation is the subject of SpecVerifier and SpecLoop.                *)
(***************************************************************************)
DrvCryptoSymbols == <<"BTC/USD">>
DrvStockSymbols == <<"SPY">>
AnalyzeOutcomes == {"exception", "none", "signal"}
DefaultPositionSizePct == 10
KellySizes == {5, 25}

\* Awaits at which the task can be suspended: task creation, the gather of
\* scan_markets, the websocket sends of send_gvu_thought before and inside the
\* updater loop, and the two sleeps.  execute_trade contains no await.
SuspensionPointsMutant ==
    {"created", "scan", "updater_thought", "executed_thought", "sleep", "backoff",
     "exec_submit"}
SuspensionPoints ==
    {"created", "scan", "updater_thought", "executed_thought", "sleep", "backoff"}

\* ConnectionManager.broadcast wraps send_json in a bare except, which also
\* catches the CancelledError thrown into the task by Task.cancel().
SwallowingPoints == {"updater_thought", "executed_thought"}
ExecutionStepPcs == {"exec_submit", "exec_log", "exec_restore"}

RECURSIVE ScanCollect(_, _)
ScanCollect(symbols, results) ==
    IF symbols = <<>> THEN <<>>
    ELSE LET rest == ScanCollect(Tail(symbols), Tail(results))
         IN  IF Head(results) = "signal" THEN <<Head(symbols)>> \o rest ELSE rest

\* gather without return_exceptions: the first failing symbol fails the scan.
scan_marketsMutant(symbols, results) ==
    IF \E i \in 1..Len(results) : results[i] = "exception"
    THEN [raised |-> TRUE, signals |-> <<>>]
    ELSE [raised |-> FALSE, signals |-> ScanCollect(symbols, results)]

scan_markets(symbols, results) ==
    [raised |-> FALSE, signals |-> ScanCollect(symbols, results)]

DrvNoRet ==
    [op |-> "none", pc |-> "none", raised |-> FALSE, active |-> FALSE,
     errors |-> 0, cycle |-> 0, results |-> <<>>]

DrvRet(op, raised, results) ==
    [op |-> op, pc |-> drv_pc, raised |-> raised, active |-> trading_active,
     errors |-> drv_errors, cycle |-> drv_cycle, results |-> results]

DrvInit ==
    /\ trading_active = FALSE
    /\ trading_task = "none"
    /\ drv_pc = "stopped"
    /\ drv_cycle = 0
    /\ drv_errors = 0
    /\ drv_all_signals = <<>>
    /\ verified_signals = <<>>
    /\ STRATEGY_CONFIG_position_size_pct = DefaultPositionSizePct
    /\ old_size = DefaultPositionSizePct
    /\ drv_success = FALSE
    /\ orders_submitted = 0
    /\ orders_logged = 0
    /\ drv_ret = DrvNoRet

\* except Exception in trading_loop: log_activity("[GVU ERROR] ..."), then sleep(10).
GvuErrorHandler ==
    /\ drv_errors' = drv_errors + 1
    /\ drv_pc' = "backoff"

\* start_trading.  One task at a time is modelled: a second start while a
\* cancelled-but-still-running task finishes is outside this component.
start_trading ==
    /\ trading_task # "running"
    /\ IF trading_active
       THEN /\ drv_ret' = DrvRet("start_trading_already_running", FALSE, <<>>)
            /\ UNCHANGED <<trading_active, trading_task, drv_pc>>
       ELSE /\ trading_active' = TRUE
            /\ trading_task' = "running"
            /\ drv_pc' = "created"
            /\ drv_ret' = DrvRet("start_trading", FALSE, <<>>)
    /\ UNCHANGED <<drv_cycle, drv_errors, drv_all_signals, verified_signals,
                   STRATEGY_CONFIG_position_size_pct, old_size, drv_success,
                   orders_submitted, orders_logged>>

\* stop_trading: clears the flag and cancels the task at the await it is
\* suspended at.
stop_trading ==
    /\ trading_task = "running" => drv_pc \in SuspensionPoints
    /\ trading_active' = FALSE
    /\ IF trading_task = "running" /\ drv_pc \notin SwallowingPoints
       THEN trading_task' = "cancelled" /\ drv_pc' = "stopped"
       ELSE UNCHANGED <<trading_task, drv_pc>>
    /\ drv_ret' = DrvRet("stop_trading", FALSE, <<>>)
    /\ UNCHANGED <<drv_cycle, drv_errors, drv_all_signals, verified_signals,
                   STRATEGY_CONFIG_position_size_pct, old_size, drv_success,
                   orders_submitted, orders_logged>>

\* while state["trading_active"]: the test, then the phases before the scan.
DrvCycleHead(raises) ==
    /\ trading_task = "running"
    /\ drv_pc \in {"created", "sleep", "backoff"}
    /\ IF ~trading_active
       THEN /\ trading_task' = "done"
            /\ drv_pc' = "stopped"
            /\ drv_ret' = DrvRet("cycle_head", FALSE, <<>>)
            /\ UNCHANGED <<drv_cycle, drv_errors>>
       ELSE /\ drv_cycle < MaxCycles
            /\ drv_cycle' = drv_cycle + 1
            /\ drv_ret' = DrvRet("cycle_head", raises, <<>>)
            /\ IF raises THEN GvuErrorHandler
               ELSE drv_pc' = "scan" /\ UNCHANGED drv_errors
            /\ UNCHANGED trading_task
    /\ UNCHANGED <<trading_active, drv_all_signals, verified_signals,
                   STRATEGY_CONFIG_position_size_pct, old_size, drv_success,
                   orders_submitted, orders_logged>>

DrvScanMarkets(crypto_results, stock_results) ==
    /\ trading_task = "running"
    /\ drv_pc = "scan"
    /\ LET c == scan_markets(DrvCryptoSymbols, crypto_results)
           s == scan_markets(DrvStockSymbols, stock_results)
           raised == c.raised \/ s.raised
       IN  /\ drv_ret' = DrvRet("scan_markets", raised, crypto_results \o stock_results)
           /\ IF raised
              THEN GvuErrorHandler /\ UNCHANGED drv_all_signals
              ELSE /\ drv_all_signals' = c.signals \o s.signals
                   /\ drv_pc' = "gates"
                   /\ UNCHANGED drv_errors
    /\ UNCHANGED <<trading_active, trading_task, drv_cycle, verified_signals,
                   STRATEGY_CONFIG_position_size_pct, old_size, drv_success,
                   orders_submitted, orders_logged>>

\* Regime detection, the two inactivity gates, the verifier and Kelly sizing.
\* verdict[i] = 0 rejects drv_all_signals[i]; otherwise it is the Kelly size.
DrvGates(outcome, verdict) ==
    /\ trading_task = "running"
    /\ drv_pc = "gates"
    /\ drv_ret' = DrvRet("gates", outcome = "raise", <<>>)
    /\ CASE outcome = "raise" ->
              GvuErrorHandler /\ UNCHANGED verified_signals
         [] outcome = "inactive" ->
              /\ verified_signals' = <<>>
              /\ drv_pc' = "sweep"
              /\ UNCHANGED drv_errors
         [] OTHER ->
              /\ verified_signals' =
                     LET F[i \in 0..Len(drv_all_signals)] ==
                             IF i = 0 THEN <<>>
                             ELSE IF verdict[i] = 0 THEN F[i - 1]
                             ELSE Append(F[i - 1],
                                         [symbol |-> drv_all_signals[i],
                                          position_size_pct |-> verdict[i]])
                     IN  F[Len(drv_all_signals)]
              /\ drv_pc' = "updater_thought"
              /\ UNCHANGED drv_errors
    /\ UNCHANGED <<trading_active, trading_task, drv_cycle, drv_all_signals,
                   STRATEGY_CONFIG_position_size_pct, old_size, drv_success,
                   orders_submitted, orders_logged>>

\* for signal in verified_signals: the break on the flag, then the override.
DrvUpdaterLoop ==
    /\ trading_task = "running"
    /\ drv_pc \in {"updater_thought", "executed_thought", "updater_loop"}
    /\ drv_ret' = DrvRet("updater_loop", FALSE, <<>>)
    /\ IF verified_signals = <<>> \/ ~trading_active
       THEN /\ drv_pc' = "sweep"
            /\ UNCHANGED <<STRATEGY_CONFIG_position_size_pct, old_size>>
       ELSE /\ old_size' = STRATEGY_CONFIG_position_size_pct
            /\ STRATEGY_CONFIG_position_size_pct' = Head(verified_signals).position_size_pct
            /\ drv_pc' = "exec_submit"
    /\ UNCHANGED <<trading_active, trading_task, drv_cycle, drv_errors, drv_all_signals,
                   verified_signals, drv_success, orders_submitted, orders_logged>>

\* execute_trade up to submit_order; every exception is caught inside it.
DrvExecSubmit(outcome) ==
    /\ trading_task = "running"
    /\ drv_pc = "exec_submit"
    /\ drv_ret' = DrvRet("execute_trade", FALSE, <<outcome>>)
    /\ IF outcome = "filled" /\ trading_active
       THEN /\ orders_submitted' = orders_submitted + 1
            /\ drv_pc' = "exec_log"
            /\ UNCHANGED drv_success
       ELSE /\ drv_success' = FALSE
            /\ drv_pc' = "exec_restore"
            /\ UNCHANGED orders_submitted
    /\ UNCHANGED <<trading_active, trading_task, drv_cycle, drv_errors, drv_all_signals,
                   verified_signals, STRATEGY_CONFIG_position_size_pct, old_size,
                   orders_logged>>

\* trade_log.append, trades_today += 1, last_trade_time[symbol] = now.
DrvExecLog ==
    /\ trading_task = "running"
    /\ drv_pc = "exec_log"
    /\ drv_ret' = DrvRet("log_trade", FALSE, <<>>)
    /\ orders_logged' = orders_logged + 1
    /\ drv_success' = TRUE
    /\ drv_pc' = "exec_restore"
    /\ UNCHANGED <<trading_active, trading_task, drv_cycle, drv_errors, drv_all_signals,
                   verified_signals, STRATEGY_CONFIG_position_size_pct, old_size,
                   orders_submitted>>

DrvExecRestore ==
    /\ trading_task = "running"
    /\ drv_pc = "exec_restore"
    /\ drv_ret' = DrvRet("restore", FALSE, <<>>)
    /\ STRATEGY_CONFIG_position_size_pct' = old_size
    /\ verified_signals' = Tail(verified_signals)
    /\ drv_pc' = IF drv_success THEN "executed_thought" ELSE "updater_loop"
    /\ UNCHANGED <<trading_active, trading_task, drv_cycle, drv_errors, drv_all_signals,
                   old_size, drv_success, orders_submitted, orders_logged>>

\* check_stop_loss_take_profit, state sync and the state broadcast.
DrvSweep(raises) ==
    /\ trading_task = "running"
    /\ drv_pc = "sweep"
    /\ drv_ret' = DrvRet("sweep", raises, <<>>)
    /\ IF raises THEN GvuErrorHandler
       ELSE drv_pc' = "sleep" /\ UNCHANGED drv_errors
    /\ UNCHANGED <<trading_active, trading_task, drv_cycle, drv_all_signals,
                   verified_signals, STRATEGY_CONFIG_position_size_pct, old_size,
                   drv_success, orders_submitted, orders_logged>>

TradingLoopStep ==
    \/ \E raises \in BOOLEAN : DrvCycleHead(raises)
    \/ \E c \in [1..Len(DrvCryptoSymbols) -> AnalyzeOutcomes],
          s \in [1..Len(DrvStockSymbols) -> AnalyzeOutcomes] : DrvScanMarkets(c, s)
    \/ \E outcome \in {"raise", "inactive", "proceed"},
          verdict \in [1..Len(drv_all_signals) -> {0} \cup KellySizes] :
              DrvGates(outcome, verdict)
    \/ DrvUpdaterLoop
    \/ \E outcome \in {"rejected", "broker_error", "filled"} : DrvExecSubmit(outcome)
    \/ DrvExecLog
    \/ DrvExecRestore
    \/ \E raises \in BOOLEAN : DrvSweep(raises)

C22_TradingLoopSurvives ==
    /\ trading_task = "done" => ~trading_active
    /\ drv_ret.raised =>
           /\ trading_task = "running"
           /\ drv_pc = "backoff"
           /\ drv_errors = drv_ret.errors + 1
    /\ (drv_ret.op = "cycle_head" /\ drv_ret.pc = "backoff" /\ drv_ret.active) =>
           /\ trading_task = "running"
           /\ drv_cycle = drv_ret.cycle + 1
    /\ drv_ret.op = "scan_markets" =>
           /\ ~drv_ret.raised
           /\ LET symbols == DrvCryptoSymbols \o DrvStockSymbols
              IN  \A i \in 1..Len(symbols) :
                      drv_ret.results[i] = "signal" <=>
                          \E j \in 1..Len(drv_all_signals) : drv_all_signals[j] = symbols[i]

C22_Witness ==
    /\ drv_ret.op = "scan_markets"
    /\ drv_errors > 0
    /\ \E i \in 1..Len(drv_ret.results) : drv_ret.results[i] = "exception"
    /\ drv_all_signals # <<>>

\* C24: stop_trading never takes effect inside a symbol's execution step: it is
\* never served between the position-size override and its restore, and once the
\* task has ended (by the flag or by cancellation) STRATEGY_CONFIG's position size
\* is the configured one and every submitted order has been logged.
C24_StopOutsideExecutionStep ==
    /\ drv_ret.op = "stop_trading" => drv_ret.pc \notin ExecutionStepPcs
    /\ trading_task \in {"done", "cancelled"} =>
           /\ STRATEGY_CONFIG_position_size_pct = DefaultPositionSizePct
           /\ orders_submitted = orders_logged

C24_Witness ==
    /\ drv_ret.op = "stop_trading"
    /\ drv_ret.pc = "executed_thought"
    /\ verified_signals # <<>>
    /\ orders_logged > 0

---------------------------------------------------------------------------
(***************************************************************************)
(* MemecoinEngine.run_engine_loop as asyncio tasks, with the /start, /stop,*)
(* /config and /buy request handlers of api_routes.py.  eng_pc[t] names    *)
(* the await task t is suspended at ("autotrade" is the head of the        *)
(* auto-trade for loop, which does not yield).  What the scans find, what  *)
(* RugDetector reports and whether a swap succeeds are inputs.             *)
(***************************************************************************)
EngTasks == 1..MaxEngineTasks
EngMints == <<"BONK", "WIF">>
position_sizer_max_positions == 8
max_trades_per_cycle == 3
\* Per candidate of a discovery cycle: not found, reported unsafe, reported safe
\* with an alpha score under 60, reported safe and tradeable.
DiscoveryOutcomes == {"absent", "unsafe", "safe_low_alpha", "safe"}
EngSuspended == {"created", "init_balance", "manage", "discovery", "buy_swap",
                 "sleep", "backoff"}

\* "if not safety.is_safe": skip the opportunity, reject the request.
SafetyGateMutant(is_safe) == TRUE
SafetyGate(is_safe) == is_safe

\* start_engine's test for a loop that is already there.
AlreadyRunning(active, task, pcs) ==
    active /\ task # 0 /\ pcs[task] # "done"

EngNoRet ==
    [op |-> "none", task |-> 0, mint |-> "", path |-> "", active |-> FALSE,
     report_is_safe |-> FALSE, raised |-> FALSE, status |-> ""]

EngRet(op, t, mint, path, safe, raised, status) ==
    [op |-> op, task |-> t, mint |-> mint, path |-> path, active |-> eng_active,
     report_is_safe |-> safe, raised |-> raised, status |-> status]

EngInit ==
    /\ eng_active = FALSE
    /\ eng_auto_trade = FALSE
    /\ engine_task = 0
    /\ eng_pc = [t \in EngTasks |-> "none"]
    /\ eng_opps = [t \in EngTasks |-> <<>>]
    /\ eng_positions = <<>>
    /\ eng_total_trades = 0
    /\ eng_shut_pc = "idle"
    /\ eng_shut_list = <<>>
    /\ eng_sell_failed = FALSE
    /\ eng_ret = EngNoRet

\* eng_positions is the positions map as a sequence of [mint, path] records, one
\* per key, in insertion order.
EngHeld == {eng_positions[i].mint : i \in 1..Len(eng_positions)}
EngWithout(positions, mint) == SelectSeq(positions, LAMBDA p : p.mint # mint)
EngPut(positions, mint, path) ==
    IF \E i \in 1..Len(positions) : positions[i].mint = mint
    THEN [i \in 1..Len(positions) |->
              IF positions[i].mint = mint THEN [mint |-> mint, path |-> path]
              ELSE positions[i]]
    ELSE Append(positions, [mint |-> mint, path |-> path])

\* No task is inside a run segment: request handlers and other tasks run only then.
EngAllSuspended == \A t \in EngTasks : eng_pc[t] \in EngSuspended \cup {"none", "done"}

\* except Exception in run_engine_loop: print, then sleep(5).
EngErrorHandler(t) ==
    eng_pc' = [eng_pc EXCEPT ![t] = "backoff"]

start_engine ==
    /\ EngAllSuspended
    /\ IF AlreadyRunning(eng_active, engine_task, eng_pc)
       THEN /\ eng_ret' = EngRet("start_engine", engine_task, "", "", FALSE, FALSE,
                                 "already_running")
            /\ UNCHANGED <<engine_task, eng_pc>>
       ELSE \E t \in EngTasks :
              /\ eng_pc[t] = "none"
              /\ \A u \in EngTasks : u < t => eng_pc[u] # "none"
              /\ engine_task' = t
              /\ eng_pc' = [eng_pc EXCEPT ![t] = "created"]
              /\ eng_ret' = EngRet("start_engine", t, "", "", FALSE, FALSE, "started")
    /\ UNCHANGED <<eng_active, eng_auto_trade, eng_opps, eng_positions,
                   eng_total_trades, eng_shut_pc, eng_shut_list,
                   eng_sell_failed>>

update_config(auto_trade) ==
    /\ EngAllSuspended
    /\ eng_auto_trade' = auto_trade
    /\ eng_ret' = EngRet("update_config", 0, "", "", FALSE, FALSE, "updated")
    /\ UNCHANGED <<eng_active, engine_task, eng_pc, eng_opps, eng_positions,
                   eng_total_trades, eng_shut_pc, eng_shut_list,
                   eng_sell_failed>>

\* POST /buy: analyze_token, the safety gate, execute_buy.
buy_token(mint, is_safe, swap_ok) ==
    /\ EngAllSuspended
    /\ eng_total_trades < MaxEngineBuys
    /\ IF ~SafetyGate(is_safe)
       THEN /\ eng_ret' = EngRet("buy_token", 0, mint, "manual", is_safe, FALSE,
                                 "failed safety check")
            /\ UNCHANGED <<eng_positions, eng_total_trades>>
       ELSE IF ~swap_ok
       THEN /\ eng_ret' = EngRet("buy_token", 0, mint, "manual", is_safe, FALSE,
                                 "Buy failed")
            /\ UNCHANGED <<eng_positions, eng_total_trades>>
       ELSE /\ eng_positions' = EngPut(eng_positions, mint, "manual")
            /\ eng_total_trades' = eng_total_trades + 1
            /\ eng_ret' = EngRet("execute_buy", 0, mint, "manual", is_safe, FALSE,
                                 "bought")
    /\ UNCHANGED <<eng_active, eng_auto_trade, engine_task, eng_pc, eng_opps,
                   eng_shut_pc, eng_shut_list, eng_sell_failed>>

\* stop_engine -> shutdown: clears the flag, snapshots the keys of positions and
\* starts selling the first one.
stop_engine ==
    /\ EngAllSuspended
    /\ eng_shut_pc \in {"idle", "done"}
    /\ eng_active' = FALSE
    /\ eng_shut_list' = [i \in 1..Len(eng_positions) |-> eng_positions[i].mint]
    /\ eng_shut_pc' = IF eng_positions = <<>> THEN "closing" ELSE "selling"
    /\ eng_sell_failed' = FALSE
    /\ eng_ret' = EngRet("shutdown", 0, "", "", FALSE, FALSE, "stopping")
    /\ UNCHANGED <<eng_auto_trade, engine_task, eng_pc, eng_opps, eng_positions,
                   eng_total_trades>>

\* shutdown resumed after the swap of execute_sell(mint, 1.0, "Engine shutdown"),
\* or after the close() calls.
EngShutdownStep(swap_ok) ==
    /\ EngAllSuspended
    /\ \/ /\ eng_shut_pc = "selling"
          /\ LET mint == Head(eng_shut_list)
                 sold == swap_ok /\ mint \in EngHeld
             IN  /\ eng_positions' = IF sold THEN EngWithout(eng_positions, mint)
                                     ELSE eng_positions
                 /\ eng_sell_failed' = (eng_sell_failed \/ ~swap_ok)
          /\ eng_shut_list' = Tail(eng_shut_list)
          /\ eng_shut_pc' = IF Tail(eng_shut_list) = <<>> THEN "closing" ELSE "selling"
          /\ eng_ret' = EngRet("shutdown_sell", 0, Head(eng_shut_list), "", FALSE,
                               FALSE, "")
       \/ /\ eng_shut_pc = "closing"
          /\ swap_ok
          /\ eng_shut_pc' = "done"
          /\ eng_ret' = EngRet("shutdown_complete", 0, "", "", FALSE, FALSE, "stopped")
          /\ UNCHANGED <<eng_positions, eng_shut_list, eng_sell_failed>>
    /\ UNCHANGED <<eng_active, eng_auto_trade, engine_task, eng_pc, eng_opps,
                   eng_total_trades>>

\* The task's first segment: run_engine_loop calls initialize, which awaits
\* rpc.get_balance.
EngTaskStart(t) ==
    /\ EngAllSuspended
    /\ eng_pc[t] = "created"
    /\ eng_pc' = [eng_pc EXCEPT ![t] = "init_balance"]
    /\ eng_ret' = EngRet("initialize", t, "", "", FALSE, FALSE, "")
    /\ UNCHANGED <<eng_active, eng_auto_trade, engine_task, eng_opps, eng_positions,
                   eng_total_trades, eng_shut_pc, eng_shut_list,
                   eng_sell_failed>>

\* initialize sets active; the loop test follows, then manage_positions.
EngInitialized(t) ==
    /\ EngAllSuspended
    /\ eng_pc[t] = "init_balance"
    /\ eng_active' = TRUE
    /\ eng_pc' = [eng_pc EXCEPT ![t] = "manage"]
    /\ eng_ret' = EngRet("initialized", t, "", "", FALSE, FALSE, "")
    /\ UNCHANGED <<eng_auto_trade, engine_task, eng_opps, eng_positions,
                   eng_total_trades, eng_shut_pc, eng_shut_list,
                   eng_sell_failed>>

\* manage_positions done (exits are the positions it sold), discovery begins.
EngManage(t, exits, raises) ==
    /\ EngAllSuspended
    /\ eng_pc[t] = "manage"
    /\ eng_ret' = EngRet("manage_positions", t, "", "", FALSE, raises, "")
    /\ IF raises
       THEN EngErrorHandler(t) /\ UNCHANGED eng_positions
       ELSE /\ eng_positions' = SelectSeq(eng_positions, LAMBDA p : p.mint \notin exits)
            /\ eng_pc' = [eng_pc EXCEPT ![t] = "discovery"]
    /\ UNCHANGED <<eng_active, eng_auto_trade, engine_task, eng_opps,
                   eng_total_trades, eng_shut_pc, eng_shut_list, eng_sell_failed>>

\* run_discovery_cycle: the scored opportunities, each with the report it passed.
ScoredOpportunities(outcome, held) ==
    LET F[i \in 0..Len(EngMints)] ==
            IF i = 0 THEN <<>>
            ELSE LET mint == EngMints[i]
                     is_safe == outcome[i] \in {"safe", "safe_low_alpha"}
                     is_tradeable == outcome[i] \in {"safe", "unsafe"} /\ SafetyGate(is_safe)
                 IN  IF outcome[i] = "absent" \/ mint \in held THEN F[i - 1]
                     ELSE IF ~SafetyGate(is_safe) THEN F[i - 1]
                     ELSE IF is_tradeable
                          THEN Append(F[i - 1], [mint |-> mint, report_is_safe |-> is_safe])
                          ELSE F[i - 1]
    IN  F[Len(EngMints)]

EngDiscovery(t, outcome, raises) ==
    /\ EngAllSuspended
    /\ eng_pc[t] = "discovery"
    /\ eng_ret' = EngRet("run_discovery_cycle", t, "", "", FALSE, raises, "")
    /\ IF raises
       THEN EngErrorHandler(t) /\ UNCHANGED eng_opps
       ELSE /\ LET opportunities == ScoredOpportunities(outcome, EngHeld)
               IN  eng_opps' = [eng_opps EXCEPT ![t] =
                       IF eng_auto_trade
                       THEN SubSeq(opportunities, 1,
                                   Min(max_trades_per_cycle, Len(opportunities)))
                       ELSE <<>>]
            /\ eng_pc' = [eng_pc EXCEPT ![t] = "autotrade"]
    /\ UNCHANGED <<eng_active, eng_auto_trade, engine_task, eng_positions,
                   eng_total_trades, eng_shut_pc, eng_shut_list, eng_sell_failed>>

\* for opp in opportunities[:3]: the max-positions break, the sizing, and the call
\* of execute_buy up to its swap; with nothing left, the sleep.
EngAutoTrade(t, can_trade) ==
    /\ eng_pc[t] = "autotrade"
    /\ IF eng_opps[t] = <<>> \/ Len(eng_positions) >= position_sizer_max_positions
       THEN /\ eng_pc' = [eng_pc EXCEPT ![t] = "sleep"]
            /\ eng_opps' = [eng_opps EXCEPT ![t] = <<>>]
            /\ eng_ret' = EngRet("cycle_end", t, "", "", FALSE, FALSE, "")
       ELSE IF ~can_trade
       THEN /\ eng_opps' = [eng_opps EXCEPT ![t] = Tail(@)]
            /\ eng_ret' = EngRet("sizing", t, Head(eng_opps[t]).mint, "auto",
                                 Head(eng_opps[t]).report_is_safe, FALSE, "no trade")
            /\ UNCHANGED eng_pc
       ELSE /\ eng_total_trades < MaxEngineBuys
            /\ eng_pc' = [eng_pc EXCEPT ![t] = "buy_swap"]
            /\ eng_ret' = EngRet("execute_buy_call", t, Head(eng_opps[t]).mint, "auto",
                                 Head(eng_opps[t]).report_is_safe, FALSE, "")
            /\ UNCHANGED eng_opps
    /\ UNCHANGED <<eng_active, eng_auto_trade, engine_task, eng_positions,
                   eng_total_trades, eng_shut_pc, eng_shut_list,
                   eng_sell_failed>>

\* execute_buy resumed after the swap: the position is registered on success.
EngBuySwap(t, swap_ok) ==
    /\ EngAllSuspended
    /\ eng_pc[t] = "buy_swap"
    /\ LET opp == Head(eng_opps[t])
       IN  IF swap_ok
           THEN /\ eng_positions' = EngPut(eng_positions, opp.mint, "auto")
                /\ eng_total_trades' = eng_total_trades + 1
                /\ eng_ret' = EngRet("execute_buy", t, opp.mint, "auto",
                                     opp.report_is_safe, FALSE, "bought")
           ELSE /\ eng_ret' = EngRet("execute_buy", t, opp.mint, "auto",
                                     opp.report_is_safe, FALSE, "swap failed")
                /\ UNCHANGED <<eng_positions, eng_total_trades>>
    /\ eng_opps' = [eng_opps EXCEPT ![t] = Tail(@)]
    /\ eng_pc' = [eng_pc EXCEPT ![t] = "autotrade"]
    /\ UNCHANGED <<eng_active, eng_auto_trade, engine_task, eng_shut_pc,
                   eng_shut_list, eng_sell_failed>>

\* After sleep(scan_interval_seconds) or the back-off sleep: while self.active.
EngWake(t) ==
    /\ EngAllSuspended
    /\ eng_pc[t] \in {"sleep", "backoff"}
    /\ eng_ret' = EngRet("loop_test", t, "", eng_pc[t], FALSE, FALSE, "")
    /\ IF eng_active
       THEN eng_pc' = [eng_pc EXCEPT ![t] = "manage"]
       ELSE eng_pc' = [eng_pc EXCEPT ![t] = "done"]
    /\ UNCHANGED <<eng_active, eng_auto_trade, engine_task, eng_opps, eng_positions,
                   eng_total_trades, eng_shut_pc, eng_shut_list,
                   eng_sell_failed>>

EngineStep ==
    \E t \in EngTasks :
        \/ EngTaskStart(t)
        \/ EngInitialized(t)
        \/ \E exits \in SUBSET EngHeld, raises \in BOOLEAN : EngManage(t, exits, raises)
        \/ \E outcome \in [1..Len(EngMints) -> DiscoveryOutcomes], raises \in BOOLEAN :
               EngDiscovery(t, outcome, raises)
        \/ \E can_trade \in BOOLEAN : EngAutoTrade(t, can_trade)
        \/ \E swap_ok \in BOOLEAN : EngBuySwap(t, swap_ok)
        \/ EngWake(t)

EngUpdateConfig == \E auto_trade \in BOOLEAN : update_config(auto_trade)
EngBuyToken ==
    \E i \in 1..Len(EngMints), is_safe \in BOOLEAN, swap_ok \in BOOLEAN :
        buy_token(EngMints[i], is_safe, swap_ok)
EngShutdown == \E swap_ok \in BOOLEAN : EngShutdownStep(swap_ok)

\* C29: the peak and day-start equity a halt is measured against are values passed
\* to update_equity before: the first update_equity(e) on a fresh manager, for any
\* e > 0, leaves peak and day-start equity at e (drawdown 0, daily P&L 0) and the
\* manager not halted.
C29_FirstUpdateSetsBaseline ==
    [][ (arm_ret.op = "init" /\ arm_ret'.op = "update_equity" /\ arm_equity' > 0) =>
            /\ arm_peak_equity' = arm_equity'
            /\ arm_day_start_equity' = arm_equity'
            /\ ~arm_is_halted' ]_vars

---------------------------------------------------------------------------
(***************************************************************************)
(* SpecHGECap: five symbols, one more than max_concurrent_positions, each  *)
(* quoted at one price; BTC/USD is also quoted above its first pyramid     *)
(* trigger.                                                                *)
(***************************************************************************)
CapMarketStates ==
    { [symbol |-> sym, current_price |-> 10000, regime |-> "neutral",
       readings |-> BookBull, atr |-> 300, bars |-> 60] : sym \in HgeSymbols }
    \cup
    { [symbol |-> "BTC/USD", current_price |-> 10600, regime |-> "neutral",
       readings |-> BookBull, atr |-> 300, bars |-> 60] }

\* The UTC date advancing, far enough for a fifth entry under MaxDailyTrades.
CapMidnight ==
    /\ utc_day < MaxCapDay
    /\ utc_day' = utc_day + 1
    /\ UNCHANGED <<et_hour, et_minute>>

CapGenerateSignals ==
    /\ \E ms \in CapMarketStates : generate_signals(ms)
    /\ UNCHANGED <<hge_consecutive_losses, hge_is_halted, gt_current_equity,
                   gt_trade_returns, gt_win_count, gt_loss_count>>

\* C25: the number of active positions never exceeds max_concurrent_positions; at
\* the maximum a generate_signals call registers no new position and emits at most
\* a pyramid add for a symbol that is already open.
C25_PositionCountCapped ==
    [][ LET open == {sym \in HgeSymbols : hge_active_positions[sym].present}
            open_after == {sym \in HgeSymbols : hge_active_positions'[sym].present}
        IN  /\ Cardinality(open_after) <= max_concurrent_positions
            /\ (Cardinality(open) >= max_concurrent_positions
                  /\ hge_ret'.op = "generate_signals" /\ hge_ret' # hge_ret) =>
                   /\ open_after = open
                   /\ hge_ret'.kind \in {"none", "pyramid"}
                   /\ hge_ret'.kind = "pyramid" => hge_ret'.symbol \in open ]_vars

C25_Witness ==
    /\ NumActivePositions = max_concurrent_positions
    /\ hge_ret.op = "generate_signals"
    /\ hge_ret.kind = "none"
    /\ hge_ret.why = "max positions"
    /\ ~hge_active_positions[hge_ret.symbol].present

\* C26: a position is opened only from Flat: a generate_signals call for a symbol
\* that already has an active position never registers a fresh entry over it; it
\* emits a pyramid add or nothing.
C26_EntryOnlyFromFlat ==
    [][ \A sym \in HgeSymbols :
          (hge_active_positions[sym].present /\ hge_ret'.op = "generate_signals"
             /\ hge_ret'.symbol = sym /\ hge_ret' # hge_ret) =>
              hge_ret'.kind \in {"none", "pyramid"} ]_vars

\* C22: while the active flag is true and the task is not cancelled, an exception
\* raised inside a cycle of trading_loop, or of run_engine_loop, is logged and
\* followed by the back-off sleep and, from there, by a new cycle; either loop ends
\* normally only once its flag is false; and scan_markets collects every symbol that
\* produced a signal even when another symbol's analysis raised.
C22_LoopSurvivesExceptions ==
    /\ C22_TradingLoopSurvives
    /\ eng_ret.raised => eng_pc[eng_ret.task] = "backoff"
    /\ eng_ret.op = "loop_test" =>
           eng_pc[eng_ret.task] = IF eng_ret.active THEN "manage" ELSE "done"

\* C23: no buy is executed for a token the safety collaborator reports unsafe: every
\* call of execute_buy, from the auto-trade loop or from a /buy request, follows a
\* SafetyReport for the same mint with is_safe true; a report with is_safe false
\* keeps the token out of the tradeable opportunities, or rejects the request.
C23_BuyOnlyAfterSafeReport ==
    /\ eng_ret.op \in {"execute_buy_call", "execute_buy"} => eng_ret.report_is_safe
    /\ (eng_ret.op = "buy_token" /\ ~eng_ret.report_is_safe) =>
           eng_ret.status = "failed safety check"
    /\ \A t \in EngTasks : \A i \in 1..Len(eng_opps[t]) : eng_opps[t][i].report_is_safe

C23_Witness ==
    /\ eng_ret.op = "execute_buy"
    /\ eng_ret.path = "auto"
    /\ eng_ret.status = "bought"
    /\ eng_ret.mint \in EngHeld

\* C27: at most one run_engine_loop task is unfinished at any time: a start_engine
\* call made while a previously created task has not finished returns
\* "already_running" and creates no second task.
C27_SingleEngineLoop ==
    Cardinality({t \in EngTasks : eng_pc[t] \notin {"none", "done"}}) <= 1

\* C28: the auto-trade loop never calls execute_buy after shutdown has set active to
\* false, and when shutdown completes with every swap having succeeded no position
\* opened by the loop is left in the positions map.
C28_NoBuyAfterShutdown ==
    /\ eng_ret.op = "execute_buy_call" => eng_ret.active
    /\ (eng_ret.op = "shutdown_complete" /\ ~eng_sell_failed) =>
           \A i \in 1..Len(eng_positions) : eng_positions[i].path # "auto"

---------------------------------------------------------------------------
(***************************************************************************)
(* rug_detector.py: RugDetector.analyze_token and SafetyReport.            *)
(* Percentages and dollars are integers.                                   *)
(***************************************************************************)
min_liquidity_usd == 5000
max_top_holder_pct == 30
max_creator_holding_pct == 15
min_holders == 50
min_pool_age_minutes == 5
max_buy_tax_pct == 10
max_sell_tax_pct == 10

\* SafetyReport(mint=...): the dataclass defaults.
NewSafetyReport ==
    [safety_score |-> 0, is_safe |-> FALSE, liquidity_usd |-> 0, top_holder_pct |-> 0,
     creator_holding_pct |-> 0, holder_count |-> 0, pool_age_minutes |-> 0,
     buy_tax_pct |-> 0, sell_tax_pct |-> 0, is_honeypot |-> FALSE,
     ownership_renounced |-> FALSE, lp_locked |-> FALSE,
     has_mint_authority |-> FALSE, has_freeze_authority |-> FALSE]

\* What a fetch hands to analyze_token: an exception out of gather, None (error
\* status, timeout, no data; for DexScreener also an empty pair list), or the
\* fields the processors read. On a failure there are no fields to read.
FetchFailures == {"exception", "none", "empty"}
RugcheckResults ==
    [status : {"exception", "none"}, top_holder_pct : {0}, liquidity_usd : {0},
     has_mint_authority : {FALSE}]
    \cup [status : {"data"}, top_holder_pct : {10, 60}, liquidity_usd : {0, 10000},
          has_mint_authority : BOOLEAN]
GoplusResults ==
    [status : {"exception", "none"}, is_honeypot : {FALSE}, sell_tax_pct : {0},
     holder_count : {0}, ownership_renounced : {FALSE}]
    \cup [status : {"data"}, is_honeypot : BOOLEAN, sell_tax_pct : {0, 20},
          holder_count : {0, 100}, ownership_renounced : BOOLEAN]
DexResults ==
    [status : FetchFailures, liquidity_usd : {0}, pool_age_minutes : {0}]
    \cup [status : {"data"}, liquidity_usd : {8000}, pool_age_minutes : {1, 60}]

_process_rugcheck(report, data) ==
    [report EXCEPT !.top_holder_pct = data.top_holder_pct,
                   !.liquidity_usd = Max(report.liquidity_usd, data.liquidity_usd),
                   !.has_mint_authority = data.has_mint_authority]

_process_goplus(report, data) ==
    [report EXCEPT !.is_honeypot = report.is_honeypot \/ data.is_honeypot,
                   !.sell_tax_pct = IF data.sell_tax_pct # 0 THEN data.sell_tax_pct
                                    ELSE report.sell_tax_pct,
                   !.holder_count = IF data.holder_count # 0
                                    THEN Max(report.holder_count, data.holder_count)
                                    ELSE report.holder_count,
                   !.ownership_renounced = report.ownership_renounced \/ data.ownership_renounced]

_process_dex_data(report, data) ==
    [report EXCEPT !.liquidity_usd = Max(report.liquidity_usd, data.liquidity_usd),
                   !.pool_age_minutes = data.pool_age_minutes]

\* SafetyReport.calculate_score after the thresholds were applied; max_score is 100.
calculate_score(report) ==
    LET liquidity_ok == report.liquidity_usd >= min_liquidity_usd
        holder_distribution_ok == report.top_holder_pct <= max_top_holder_pct
        creator_ok == report.creator_holding_pct <= max_creator_holding_pct
        holders_ok == report.holder_count >= min_holders
        age_ok == report.pool_age_minutes >= min_pool_age_minutes
        tax_ok == report.buy_tax_pct <= max_buy_tax_pct
                      /\ report.sell_tax_pct <= max_sell_tax_pct
        honeypot_ok == ~report.is_honeypot
        score ==
            (IF liquidity_ok THEN 20 ELSE IF report.liquidity_usd > 2000 THEN 10 ELSE 0)
          + (IF holder_distribution_ok THEN 20
             ELSE IF report.top_holder_pct < 50 THEN 10 ELSE 0)
          + (IF creator_ok THEN 15 ELSE IF report.creator_holding_pct < 25 THEN 8 ELSE 0)
          + (IF holders_ok THEN 10 ELSE IF report.holder_count > 20 THEN 5 ELSE 0)
          + (IF age_ok THEN 10 ELSE IF report.pool_age_minutes > 2 THEN 5 ELSE 0)
          + (IF tax_ok THEN 10 ELSE 0)
          + (IF honeypot_ok THEN 15 ELSE 0)
          - (IF report.has_mint_authority THEN 10 ELSE 0)
          - (IF report.has_freeze_authority THEN 10 ELSE 0)
          + (IF report.ownership_renounced THEN 5 ELSE 0)
          + (IF report.lp_locked THEN 5 ELSE 0)
        safety_score == Max(0, Min(100, score))
    IN  [report EXCEPT !.safety_score = safety_score,
                       !.is_safe = (safety_score >= 50 /\ ~report.is_honeypot)]

AnalyzeReport(rugcheck_data, goplus_data, dex_data) ==
    LET r0 == NewSafetyReport
        r1 == IF rugcheck_data.status \in FetchFailures THEN r0
              ELSE _process_rugcheck(r0, rugcheck_data)
        r2 == IF goplus_data.status \in FetchFailures THEN r1
              ELSE _process_goplus(r1, goplus_data)
        r3 == IF dex_data.status \in FetchFailures THEN r2
              ELSE _process_dex_data(r2, dex_data)
    IN  calculate_score(r3)

RugNoRet == [op |-> "none", rugcheck |-> FALSE, goplus |-> FALSE, dex |-> FALSE]

RugInit ==
    /\ rug_report = NewSafetyReport
    /\ rug_tokens_analyzed = 0
    /\ rug_tokens_flagged = 0
    /\ rug_ret = RugNoRet

analyze_token(rugcheck_data, goplus_data, dex_data) ==
    LET report == AnalyzeReport(rugcheck_data, goplus_data, dex_data)
    IN  /\ rug_tokens_analyzed < MaxAnalyses
        /\ rug_tokens_analyzed' = rug_tokens_analyzed + 1
        /\ rug_report' = report
        /\ rug_tokens_flagged' = rug_tokens_flagged + (IF report.is_safe THEN 0 ELSE 1)
        /\ rug_ret' = [op |-> "analyze_token",
                       rugcheck |-> rugcheck_data.status \notin FetchFailures,
                       goplus |-> goplus_data.status \notin FetchFailures,
                       dex |-> dex_data.status \notin FetchFailures]

RugAnalyzeToken ==
    \E rugcheck_data \in RugcheckResults, goplus_data \in GoplusResults,
       dex_data \in DexResults :
        analyze_token(rugcheck_data, goplus_data, dex_data)

\* C30: safety analysis fails closed: when the RugCheck, GoPlus and DexScreener
\* fetches all fail, time out or return no data, analyze_token returns a report with
\* is_safe false.
C30_FailsClosed ==
    (rug_ret.op = "analyze_token" /\ ~rug_ret.rugcheck /\ ~rug_ret.goplus /\ ~rug_ret.dex)
        => ~rug_report.is_safe

---------------------------------------------------------------------------
(***************************************************************************)
(* Specifications: one per component.                                      *)
(***************************************************************************)
Init ==
    /\ ClockInit
    /\ ArmInit
    /\ VerInit
    /\ HgeInit
    /\ MemeInit
    /\ HarInit
    /\ DrvInit
    /\ EngInit
    /\ RugInit

ArmNext ==
    \/ UtcMidnight /\ UNCHANGED <<armVars, verVars, hgeVars, memeVars, harVars, extVars>>
    \/ ArmUpdateEquity /\ UNCHANGED <<clockVars, verVars, hgeVars, memeVars, harVars, extVars>>
    \/ ArmRecordTrade /\ UNCHANGED <<clockVars, verVars, hgeVars, memeVars, harVars, extVars>>
    \/ ArmResetHalt /\ UNCHANGED <<clockVars, verVars, hgeVars, memeVars, harVars, extVars>>
    \/ ArmCalculatePositionSize /\ UNCHANGED <<clockVars, verVars, hgeVars, memeVars, harVars, extVars>>

SpecARM == Init /\ [][ArmNext]_vars

VerNext ==
    \/ EtClockAdvance /\ UNCHANGED <<armVars, verVars, hgeVars, memeVars, harVars, extVars>>
    \/ VerVerifySignal /\ UNCHANGED <<clockVars, armVars, hgeVars, memeVars, harVars, extVars>>

SpecVerifier == Init /\ [][VerNext]_vars

HgeNext ==
    \/ UtcMidnight /\ UNCHANGED <<armVars, verVars, hgeVars, memeVars, harVars, extVars>>
    \/ HgeTick /\ UNCHANGED <<clockVars, armVars, verVars, memeVars, harVars, extVars>>
    \/ HgeGenerateSignals /\ UNCHANGED <<clockVars, armVars, verVars, memeVars, harVars, extVars>>
    \/ HgeOnPositionClose /\ UNCHANGED <<clockVars, armVars, verVars, memeVars, harVars, extVars>>
SpecHGE == Init /\ [][HgeNext]_vars

MemeNext ==
    \/ MemeExecuteBuy /\ UNCHANGED <<clockVars, armVars, verVars, hgeVars, harVars, extVars>>
    \/ MemeManagePositions /\ UNCHANGED <<clockVars, armVars, verVars, hgeVars, harVars, extVars>>
    \/ MemeExecuteSell /\ UNCHANGED <<clockVars, armVars, verVars, hgeVars, harVars, extVars>>

SpecMeme == Init /\ [][MemeNext]_vars

HarNext ==
    \/ HarDetectEdgeDecay /\ UNCHANGED <<clockVars, armVars, verVars, hgeVars, memeVars, extVars>>

SpecHAR == Init /\ [][HarNext]_vars

LoopNext ==
    \/ EtClockAdvance /\ UNCHANGED <<armVars, verVars, hgeVars, memeVars, harVars, extVars>>
    \/ TradingLoopCycle /\ UNCHANGED <<clockVars, armVars, hgeVars, memeVars, extVars>>

SpecLoop == Init /\ [][LoopNext]_vars

TrackerNext ==
    \/ TrackerUpdate /\ UNCHANGED <<clockVars, armVars, verVars, memeVars, harVars, extVars>>

SpecTracker == Init /\ [][TrackerNext]_vars

BookNext ==
    \/ UtcMidnight /\ UNCHANGED <<armVars, verVars, hgeVars, memeVars, harVars, extVars>>
    \/ HgeTick /\ UNCHANGED <<clockVars, armVars, verVars, memeVars, harVars, extVars>>
    \/ BookGenerateSignals /\ UNCHANGED <<clockVars, armVars, verVars, memeVars, harVars, extVars>>

SpecHGEBook == Init /\ [][BookNext]_vars

CapNext ==
    \/ CapMidnight /\ UNCHANGED <<armVars, verVars, hgeVars, memeVars, harVars, extVars>>
    \/ HgeTick /\ UNCHANGED <<clockVars, armVars, verVars, memeVars, harVars, extVars>>
    \/ CapGenerateSignals /\ UNCHANGED <<clockVars, armVars, verVars, memeVars, harVars, extVars>>

SpecHGECap == Init /\ [][CapNext]_vars

DriverNext ==
    \/ start_trading /\ UNCHANGED <<clockVars, armVars, verVars, hgeVars, memeVars, harVars, engVars, rugVars>>
    \/ stop_trading /\ UNCHANGED <<clockVars, armVars, verVars, hgeVars, memeVars, harVars, engVars, rugVars>>
    \/ TradingLoopStep /\ UNCHANGED <<clockVars, armVars, verVars, hgeVars, memeVars, harVars, engVars, rugVars>>

SpecDriver == Init /\ [][DriverNext]_vars

EngineNext ==
    \/ start_engine /\ UNCHANGED <<clockVars, armVars, verVars, hgeVars, memeVars, harVars, drvVars, rugVars>>
    \/ stop_engine /\ UNCHANGED <<clockVars, armVars, verVars, hgeVars, memeVars, harVars, drvVars, rugVars>>
    \/ EngShutdown /\ UNCHANGED <<clockVars, armVars, verVars, hgeVars, memeVars, harVars, drvVars, rugVars>>
    \/ EngUpdateConfig /\ UNCHANGED <<clockVars, armVars, verVars, hgeVars, memeVars, harVars, drvVars, rugVars>>
    \/ EngBuyToken /\ UNCHANGED <<clockVars, armVars, verVars, hgeVars, memeVars, harVars, drvVars, rugVars>>
    \/ EngineStep /\ UNCHANGED <<clockVars, armVars, verVars, hgeVars, memeVars, harVars, drvVars, rugVars>>

SpecEngine == Init /\ [][EngineNext]_vars

\* Both cycle drivers.  They share no state, so a behaviour runs one of them.
CyclesNext ==
    \/ eng_ret = EngNoRet /\ start_trading /\ UNCHANGED <<clockVars, armVars, verVars, hgeVars, memeVars, harVars, engVars, rugVars>>
    \/ eng_ret = EngNoRet /\ stop_trading /\ UNCHANGED <<clockVars, armVars, verVars, hgeVars, memeVars, harVars, engVars, rugVars>>
    \/ eng_ret = EngNoRet /\ TradingLoopStep /\ UNCHANGED <<clockVars, armVars, verVars, hgeVars, memeVars, harVars, engVars, rugVars>>
    \/ drv_ret = DrvNoRet /\ start_engine /\ UNCHANGED <<clockVars, armVars, verVars, hgeVars, memeVars, harVars, drvVars, rugVars>>
    \/ drv_ret = DrvNoRet /\ stop_engine /\ UNCHANGED <<clockVars, armVars, verVars, hgeVars, memeVars, harVars, drvVars, rugVars>>
    \/ drv_ret = DrvNoRet /\ EngShutdown /\ UNCHANGED <<clockVars, armVars, verVars, hgeVars, memeVars, harVars, drvVars, rugVars>>
    \/ drv_ret = DrvNoRet /\ EngUpdateConfig /\ UNCHANGED <<clockVars, armVars, verVars, hgeVars, memeVars, harVars, drvVars, rugVars>>
    \/ drv_ret = DrvNoRet /\ EngBuyToken /\ UNCHANGED <<clockVars, armVars, verVars, hgeVars, memeVars, harVars, drvVars, rugVars>>
    \/ drv_ret = DrvNoRet /\ EngineStep /\ UNCHANGED <<clockVars, armVars, verVars, hgeVars, memeVars, harVars, drvVars, rugVars>>

SpecCycles == Init /\ [][CyclesNext]_vars

RugNext ==
    \/ RugAnalyzeToken /\ UNCHANGED <<clockVars, armVars, verVars, hgeVars, memeVars, harVars, drvVars, engVars>>

SpecRug == Init /\ [][RugNext]_vars

===========================================================================
